---- MODULE Spec2Model ----
(***************************************************************************)
(* Model of the handlers of the K-12 FAQ chatbot server (handlers/faqs.ts, *)
(* handlers/schools.ts, handlers/users.ts, handlers/auth.ts) behind the    *)
(* procedures of the router, over the schools, users and faqs tables of    *)
(* db/schema.ts.                                                           *)
(*                                                                         *)
(* A text is a sequence of one-character strings, so that lower-casing,    *)
(* splitting, the word regular expression and the ILIKE pattern match are  *)
(* computed character by character as the code and the database do.        *)
(* An optional input field is <<>> when absent and <<v>> when supplied.    *)
(***************************************************************************)
EXTENDS Integers, Sequences, FiniteSets, TLC

VARIABLES
    schools,    \* rows of schoolsTable
    nextSchoolId, \* the serial of schoolsTable.id
    faqs,       \* rows of faqsTable
    nextId,     \* the serial of faqsTable.id
    clock,      \* the database's now()
    ops,        \* number of calls the server has taken so far
    resp,       \* the response of the call that has just ended, or the idle marker
    calls,      \* the calls in flight, by request slot
    users,      \* rows of usersTable
    nextUserId  \* the serial of usersTable.id

vars == <<schools, nextSchoolId, faqs, nextId, clock, ops, resp, calls, users, nextUserId>>

(***************************************************************************)
(* Bounds of the model and constants of the program.                       *)
(***************************************************************************)
\* number of FAQ rows createFaq may add to the seeded store
MaxNew == 2

\* number of calls in one behaviour
MaxOps == 2

\* number of calls the server serves at the same time
MaxRequests == 2

\* .limit(20) of the main query of searchFaqs
LIMIT == 20

\* term.length > 2 in searchFaqs, \w{3,} in generateKeywords
MinTermLength == 3

\* createdBy passed by the router (createFaq(input, 1))
CreatedBy == 1

(***************************************************************************)
(* Characters.                                                             *)
(***************************************************************************)
Backslash == "\\"
Quote == "\""

\* A character is a one-character string; a character that has no such
\* string in TLA+ is the string of its code point, as in "U+000B".
\* the \s class of the split in searchFaqs: [\t\n\v\f\r \u00a0\u1680\u2000-\u200a
\* \u2028\u2029\u202f\u205f\u3000\ufeff]
Whitespace ==
   {" ", "\t", "\n", "\r", "\f", "U+000B", "U+00A0", "U+1680", "U+2000", "U+2001",
    "U+2002", "U+2003", "U+2004", "U+2005", "U+2006", "U+2007", "U+2008", "U+2009",
    "U+200A", "U+2028", "U+2029", "U+202F", "U+205F", "U+3000", "U+FEFF"}

\* the \w class of generateKeywords: [A-Za-z0-9_]
WordChars ==
   {"a", "b", "c", "d", "e", "f", "g", "h", "i", "j", "k", "l", "m", "n", "o", "p",
    "q", "r", "s", "t", "u", "v", "w", "x", "y", "z", "A", "B", "C", "D", "E", "F",
    "G", "H", "I", "J", "K", "L", "M", "N", "O", "P", "Q", "R", "S", "T", "U", "V",
    "W", "X", "Y", "Z", "0", "1", "2", "3", "4", "5", "6", "7", "8", "9", "_"}

\* a lower-casing that leaves every character as it is
toLowerCase_Identity(ch) == ch

\* The characters of the model are the ASCII characters and the white space
\* above.  toLowerCase changes the letters A to Z among them: the record
\* gives, for each, the letter it becomes.
LowerCaseOf ==
    [A |-> "a", B |-> "b", C |-> "c", D |-> "d", E |-> "e", F |-> "f", G |-> "g",
     H |-> "h", I |-> "i", J |-> "j", K |-> "k", L |-> "l", M |-> "m", N |-> "n",
     O |-> "o", P |-> "p", Q |-> "q", R |-> "r", S |-> "s", T |-> "t", U |-> "u",
     V |-> "v", W |-> "w", X |-> "x", Y |-> "y", Z |-> "z"]

\* String.prototype.toLowerCase on one character
toLowerCase(ch) == IF ch \in DOMAIN LowerCaseOf THEN LowerCaseOf[ch] ELSE ch

\* toLowerCase on a text
LowerText(t) == [i \in 1..Len(t) |-> toLowerCase(t[i])]

Absent == <<>>
Some(v) == <<v>>
Has(o) == o # <<>>
Val(o) == o[1]

(***************************************************************************)
(* Text functions of handlers/faqs.ts.                                     *)
(***************************************************************************)
RECURSIVE SplitFrom(_, _, _, _)
\* String.prototype.split(/\s+/): the pieces between maximal whitespace runs,
\* the empty pieces before a leading and after a trailing run included
SplitFrom(t, i, cur, inWs) ==
    IF i > Len(t) THEN <<cur>>
    ELSE IF t[i] \in Whitespace
         THEN IF inWs THEN SplitFrom(t, i + 1, cur, TRUE)
                      ELSE <<cur>> \o SplitFrom(t, i + 1, <<>>, TRUE)
         ELSE SplitFrom(t, i + 1, Append(cur, t[i]), FALSE)

SplitWhitespace(t) == SplitFrom(t, 1, <<>>, FALSE)

LongEnough(term) == Len(term) >= MinTermLength

\* a tokenizer that keeps every piece of the split
searchTerms_NoFilter(query) == SplitWhitespace(LowerText(query))

\* input.query.toLowerCase().split(/\s+/).filter(term => term.length > 2)
searchTerms(query) == SelectSeq(SplitWhitespace(LowerText(query)), LongEnough)

RECURSIVE WordRuns(_, _, _)
\* text.match(/\b\w{3,}\b/g) || []: the maximal runs of \w characters that
\* are at least three characters long, in order of occurrence
WordRuns(t, i, cur) ==
    LET done == IF Len(cur) >= MinTermLength THEN <<cur>> ELSE <<>>
    IN  IF i > Len(t) THEN done
        ELSE IF t[i] \in WordChars THEN WordRuns(t, i + 1, Append(cur, t[i]))
        ELSE done \o WordRuns(t, i + 1, <<>>)

\* [...new Set(words)]: first occurrences, in insertion order
Dedupe(ws) ==
    LET first(i) == \A j \in 1..(i - 1) : ws[j] # ws[i]
        F[i \in 0..Len(ws)] ==
            IF i = 0 THEN <<>>
            ELSE IF first(i) THEN Append(F[i - 1], ws[i]) ELSE F[i - 1]
    IN  F[Len(ws)]

\* a derivation that keeps only words of four or more characters
generateKeywords_MinFour(question, answer) ==
    LET text == LowerText(question \o <<" ">> \o answer)
        words == WordRuns(text, 1, <<>>)
    IN  Dedupe(SelectSeq(words, LAMBDA w : Len(w) > MinTermLength))

\* a derivation that lists the words last-seen first
generateKeywords_Reversed(question, answer) ==
    LET text == LowerText(question \o <<" ">> \o answer)
        words == Dedupe(WordRuns(text, 1, <<>>))
    IN  [i \in 1..Len(words) |-> words[Len(words) + 1 - i]]

\* a derivation that keeps every occurrence of a word
generateKeywords_NoDedupe(question, answer) ==
    LET text == LowerText(question \o <<" ">> \o answer)
    IN  WordRuns(text, 1, <<>>)

\* a derivation that matches the words without lower-casing the text first
generateKeywords_NoLower(question, answer) ==
    LET text == question \o <<" ">> \o answer
        words == WordRuns(text, 1, <<>>)
    IN  Dedupe(words)

generateKeywords(question, answer) ==
    LET text == LowerText(question \o <<" ">> \o answer)
        words == WordRuns(text, 1, <<>>)
    IN  Dedupe(words)

(***************************************************************************)
(* keywords::text: the json column holds the text the driver sent, which   *)
(* is JSON.stringify of the string array.                                  *)
(***************************************************************************)
\* the characters JSON.stringify writes as \uXXXX, with their four digits:
\* the control characters that have no short escape and the lone surrogates,
\* of which the model has the first and the last of each half
UnicodeEscaped ==
    {<<"U+0000", <<"0", "0", "0", "0">>>>,
     <<"U+0001", <<"0", "0", "0", "1">>>>,
     <<"U+0002", <<"0", "0", "0", "2">>>>,
     <<"U+0003", <<"0", "0", "0", "3">>>>,
     <<"U+0004", <<"0", "0", "0", "4">>>>,
     <<"U+0005", <<"0", "0", "0", "5">>>>,
     <<"U+0006", <<"0", "0", "0", "6">>>>,
     <<"U+0007", <<"0", "0", "0", "7">>>>,
     <<"U+000B", <<"0", "0", "0", "b">>>>,
     <<"U+000E", <<"0", "0", "0", "e">>>>,
     <<"U+000F", <<"0", "0", "0", "f">>>>,
     <<"U+0010", <<"0", "0", "1", "0">>>>,
     <<"U+0011", <<"0", "0", "1", "1">>>>,
     <<"U+0012", <<"0", "0", "1", "2">>>>,
     <<"U+0013", <<"0", "0", "1", "3">>>>,
     <<"U+0014", <<"0", "0", "1", "4">>>>,
     <<"U+0015", <<"0", "0", "1", "5">>>>,
     <<"U+0016", <<"0", "0", "1", "6">>>>,
     <<"U+0017", <<"0", "0", "1", "7">>>>,
     <<"U+0018", <<"0", "0", "1", "8">>>>,
     <<"U+0019", <<"0", "0", "1", "9">>>>,
     <<"U+001A", <<"0", "0", "1", "a">>>>,
     <<"U+001B", <<"0", "0", "1", "b">>>>,
     <<"U+001C", <<"0", "0", "1", "c">>>>,
     <<"U+001D", <<"0", "0", "1", "d">>>>,
     <<"U+001E", <<"0", "0", "1", "e">>>>,
     <<"U+001F", <<"0", "0", "1", "f">>>>,
     <<"U+D800", <<"d", "8", "0", "0">>>>,
     <<"U+DBFF", <<"d", "b", "f", "f">>>>,
     <<"U+DC00", <<"d", "c", "0", "0">>>>,
     <<"U+DFFF", <<"d", "f", "f", "f">>>>}

\* JSON.stringify on one character of a string
JsonEscape(ch) ==
    CASE ch = Quote -> <<Backslash, Quote>>
      [] ch = Backslash -> <<Backslash, Backslash>>
      [] ch = "U+0008" -> <<Backslash, "b">>
      [] ch = "\f" -> <<Backslash, "f">>
      [] ch = "\n" -> <<Backslash, "n">>
      [] ch = "\r" -> <<Backslash, "r">>
      [] ch = "\t" -> <<Backslash, "t">>
      [] \E e \in UnicodeEscaped : e[1] = ch ->
            <<Backslash, "u">> \o (CHOOSE e \in UnicodeEscaped : e[1] = ch)[2]
      [] OTHER -> <<ch>>

RECURSIVE Flatten(_)
Flatten(ss) == IF ss = <<>> THEN <<>> ELSE Head(ss) \o Flatten(Tail(ss))

JsonString(t) == <<Quote>> \o Flatten([i \in 1..Len(t) |-> JsonEscape(t[i])]) \o <<Quote>>

KeywordsText(keywords) ==
    <<"[">> \o
    Flatten([i \in 1..Len(keywords) |->
                (IF i = 1 THEN <<>> ELSE <<",">>) \o JsonString(keywords[i])]) \o
    <<"]">>

(***************************************************************************)
(* text ILIKE pattern of the database: % matches any run of characters, _  *)
(* any one character, a backslash takes the next pattern character         *)
(* literally, every other character matches itself without regard to case. *)
(***************************************************************************)
RECURSIVE LikeMatch(_, _)
LikeMatch(p, t) ==
    IF p = <<>> THEN t = <<>>
    ELSE IF Head(p) = "%"
         THEN LikeMatch(Tail(p), t) \/ (t # <<>> /\ LikeMatch(p, Tail(t)))
    ELSE IF t = <<>> THEN FALSE
    ELSE IF Head(p) = "_" THEN LikeMatch(Tail(p), Tail(t))
    ELSE IF Head(p) = Backslash /\ Len(p) >= 2
         THEN /\ toLowerCase(p[2]) = toLowerCase(Head(t))
              /\ LikeMatch(Tail(Tail(p)), Tail(t))
    ELSE /\ toLowerCase(Head(p)) = toLowerCase(Head(t))
         /\ LikeMatch(Tail(p), Tail(t))

\* column ILIKE '%' + term + '%'
ILike(t, term) == LikeMatch(<<"%">> \o term \o <<"%">>, t)


(***************************************************************************)
(* The record store: rows of schoolsTable and faqsTable (db/schema.ts).    *)
(***************************************************************************)
\* faqCategoryEnum
FaqCategory == {"admissions", "academic_programs", "campus_life", "contact_support", "general_info"}

Max(S) == CHOOSE m \in S : \A n \in S : n <= m

\* a join without its ON condition: every FAQ paired with every school
InnerJoin_Cross(fs, ss) == fs \X ss

\* .from(faqsTable).innerJoin(schoolsTable, eq(faqsTable.school_id, schoolsTable.id))
InnerJoin(fs, ss) == {p \in fs \X ss : p[1].school_id = p[2].id}

RECURSIVE OrderByCreatedAt_Asc(_, _)
\* an ordering by created_at ascending: the oldest rows first
OrderByCreatedAt_Asc(rows, n) ==
    IF rows = {} \/ n = 0 THEN {<<>>}
    ELSE LET oldest == CHOOSE t \in {f.created_at : f \in rows} :
                            \A f \in rows : t <= f.created_at
             first == {f \in rows : f.created_at = oldest}
         IN  UNION {{<<f>> \o rest : rest \in OrderByCreatedAt_Asc(rows \ {f}, n - 1)} : f \in first}

RECURSIVE OrderByCreatedAtDesc(_, _)
\* .orderBy(desc(faqsTable.created_at)).limit(n): every order the database
\* may return, rows of equal created_at in any relative order
OrderByCreatedAtDesc(rows, n) ==
    IF rows = {} \/ n = 0 THEN {<<>>}
    ELSE LET newest == Max({f.created_at : f \in rows})
             first == {f \in rows : f.created_at = newest}
         IN  UNION {{<<f>> \o rest : rest \in OrderByCreatedAtDesc(rows \ {f}, n - 1)} : f \in first}

\* the orders in which the groups of a GROUP BY may be returned
Orders(S) == {q \in [1..Cardinality(S) -> S] : \A c \in S : \E i \in DOMAIN q : q[i] = c}

\* .groupBy(faqsTable.category): one result row per category of the rows
GroupByCategory(rows) == Orders({f.category : f \in rows})

(***************************************************************************)
(* searchFaqs.                                                             *)
(***************************************************************************)
\* question ILIKE %term% OR answer ILIKE %term% OR keywords::text ILIKE %term%
searchCondition(term, f) ==
    \/ ILike(f.question, term)
    \/ ILike(f.answer, term)
    \/ ILike(KeywordsText(f.keywords), term)

\* the main query without eq(faqsTable.is_active, true)
conditions_AnyFaq(input, terms, f, s) ==
    /\ s.domain = input.school_domain
    /\ s.is_active = TRUE
    /\ Has(input.category) => f.category = Val(input.category)
    /\ Len(terms) > 0 => \E i \in 1..Len(terms) : searchCondition(terms[i], f)

\* the main query with the term test pushed also for an empty term list
conditions_TermsAlways(input, terms, f, s) ==
    /\ s.domain = input.school_domain
    /\ f.is_active = TRUE
    /\ s.is_active = TRUE
    /\ Has(input.category) => f.category = Val(input.category)
    /\ \E i \in 1..Len(terms) : searchCondition(terms[i], f)

\* and(...conditions) of the main query
conditions(input, terms, f, s) ==
    /\ s.domain = input.school_domain
    /\ f.is_active = TRUE
    /\ s.is_active = TRUE
    /\ Has(input.category) => f.category = Val(input.category)
    /\ Len(terms) > 0 => \E i \in 1..Len(terms) : searchCondition(terms[i], f)

\* the rows the main query selects
searchFaqsRows(fs, ss, input) ==
    LET terms == searchTerms(input.query)
    IN  {p[1] : p \in {q \in InnerJoin(fs, ss) : conditions(input, terms, q[1], q[2])}}

\* the main query without .limit(20)
searchFaqsQuery_NoLimit(fs, ss, input) ==
    LET rows == searchFaqsRows(fs, ss, input)
    IN  OrderByCreatedAtDesc(rows, Cardinality(rows))

\* const faqs = await query.where(...).orderBy(desc(created_at)).limit(20)
searchFaqsQuery(fs, ss, input) == OrderByCreatedAtDesc(searchFaqsRows(fs, ss, input), LIMIT)

\* suggestions taken from the rows the main query matched
suggestedCategories_OfMatches(fs, ss, input) ==
    GroupByCategory(searchFaqsRows(fs, ss, input))

\* the second query of searchFaqs: categories with active FAQs of the school
suggestedCategories(fs, ss, input) ==
    GroupByCategory({p[1] : p \in {q \in InnerJoin(fs, ss) :
        /\ q[2].domain = input.school_domain
        /\ q[1].is_active = TRUE
        /\ q[2].is_active = TRUE}})

\* total_results counting every matching row of the store
totalResults_AllMatches(input, result) == Cardinality(searchFaqsRows(faqs, schools, input))

\* total_results: faqs.length
totalResults(input, result) == Len(result)

(***************************************************************************)
(* getAvailableCategories, getFaqsByCategory, getFaqById.                  *)
(***************************************************************************)
\* the categories query without eq(faqsTable.is_active, true)
getAvailableCategoriesQuery_AnyFaq(fs, ss, schoolDomain) ==
    GroupByCategory({p[1] : p \in {q \in InnerJoin(fs, ss) :
        /\ q[2].domain = schoolDomain
        /\ q[2].is_active = TRUE}})

getAvailableCategoriesQuery(fs, ss, schoolDomain) ==
    GroupByCategory({p[1] : p \in {q \in InnerJoin(fs, ss) :
        /\ q[2].domain = schoolDomain
        /\ q[1].is_active = TRUE
        /\ q[2].is_active = TRUE}})

\* the category listing without eq(faqsTable.is_active, true)
getFaqsByCategoryQuery_AnyFaq(fs, ss, input) ==
    LET rows == {p[1] : p \in {q \in InnerJoin(fs, ss) :
                    /\ q[2].domain = input.school_domain
                    /\ q[1].category = input.category
                    /\ q[2].is_active = TRUE}}
    IN  OrderByCreatedAtDesc(rows, Cardinality(rows))

getFaqsByCategoryQuery(fs, ss, input) ==
    LET rows == {p[1] : p \in {q \in InnerJoin(fs, ss) :
                    /\ q[2].domain = input.school_domain
                    /\ q[1].category = input.category
                    /\ q[1].is_active = TRUE
                    /\ q[2].is_active = TRUE}}
    IN  OrderByCreatedAtDesc(rows, Cardinality(rows))

\* results[0] || null, as an optional row
getFaqById(fs, id) ==
    IF \E f \in fs : f.id = id THEN Some(CHOOSE f \in fs : f.id = id) ELSE Absent


(***************************************************************************)
(* createFaq, updateFaq, deleteFaq, updateSchool.                          *)
(***************************************************************************)
\* z.string().min(1)
NonEmptyString(t) == Len(t) >= 1

\* a create input that takes every text and every category name
createFaqInputSchema_AnyObject(input) == TRUE

\* createFaqInputSchema.parse succeeds: category of the enum, question and answer non-empty
createFaqInputSchema(input) ==
    /\ input.category \in FaqCategory
    /\ NonEmptyString(input.question)
    /\ NonEmptyString(input.answer)

\* updateFaqInputSchema.parse succeeds: each supplied field as in createFaqInputSchema
updateFaqInputSchema(input) ==
    /\ Has(input.category) => Val(input.category) \in FaqCategory
    /\ Has(input.question) => NonEmptyString(Val(input.question))
    /\ Has(input.answer) => NonEmptyString(Val(input.answer))

\* a school check that finds every school id
schoolExists_Always(ss, id) == TRUE

\* db.select().from(schoolsTable).where(eq(schoolsTable.id, input.school_id)) is not empty
schoolExists(ss, id) == \E s \in ss : s.id = id

\* a choice that takes every supplied list, the empty one too
createFaqKeywords_Supplied(input) ==
    IF Has(input.keywords) THEN Val(input.keywords)
    ELSE generateKeywords(input.question, input.answer)

\* input.keywords && input.keywords.length > 0 ? input.keywords : generateKeywords(...)
createFaqKeywords(input) ==
    IF Has(input.keywords) /\ Len(Val(input.keywords)) > 0
    THEN Val(input.keywords)
    ELSE generateKeywords(input.question, input.answer)

\* the row of db.insert(faqsTable).values({...}).returning()
createFaqRow(input, createdBy, id, now) ==
    [id |-> id,
     school_id |-> input.school_id,
     category |-> input.category,
     question |-> input.question,
     answer |-> input.answer,
     keywords |-> createFaqKeywords(input),
     is_active |-> TRUE,
     created_by |-> createdBy,
     created_at |-> now]

\* a || b on texts: the empty string is falsy
OrElse(o, current) == IF Has(o) /\ Val(o) # <<>> THEN Val(o) ELSE current

\* a keywords branch that derives whenever question or answer is supplied and
\* takes the supplied list only otherwise
updateFaqKeywords_DeriveFirst(input, currentFaq) ==
    IF Has(input.question) \/ Has(input.answer)
    THEN Some(generateKeywords(OrElse(input.question, currentFaq.question),
                               OrElse(input.answer, currentFaq.answer)))
    ELSE IF Has(input.keywords) THEN Some(Val(input.keywords))
    ELSE Absent

\* the keywords branch of updateFaq: the supplied list, else a derivation when
\* question or answer is supplied, else no keywords value is set
updateFaqKeywords(input, currentFaq) ==
    IF Has(input.keywords) THEN Some(Val(input.keywords))
    ELSE IF Has(input.question) \/ Has(input.answer)
         THEN Some(generateKeywords(OrElse(input.question, currentFaq.question),
                                    OrElse(input.answer, currentFaq.answer)))
    ELSE Absent

\* updateValues is {}: db.update().set({}) raises 'No values to set'
NoValues(input) ==
    /\ ~Has(input.category) /\ ~Has(input.question) /\ ~Has(input.answer)
    /\ ~Has(input.is_active) /\ ~Has(input.keywords)

\* the rows of db.delete(faqsTable).where(eq(faqsTable.id, input.id)).returning()
deleteFaqResults(fs, id) == {f \in fs : f.id = id}

\* a delete that reports success whatever it removed
deleteFaqSuccess_Always(results) == TRUE

\* success: results.length > 0
deleteFaqSuccess(results) == Cardinality(results) > 0

\* an update that activates the row unless is_active is supplied
updateFaqRow_ResetActive(input, currentFaq, f) ==
    LET kw == updateFaqKeywords(input, currentFaq)
    IN  [f EXCEPT
            !.category = IF Has(input.category) THEN Val(input.category) ELSE @,
            !.question = IF Has(input.question) THEN Val(input.question) ELSE @,
            !.answer = IF Has(input.answer) THEN Val(input.answer) ELSE @,
            !.is_active = IF Has(input.is_active) THEN Val(input.is_active) ELSE TRUE,
            !.keywords = IF Has(kw) THEN Val(kw) ELSE @]

\* the row after db.update(faqsTable).set(updateValues).where(eq(id))
updateFaqRow(input, currentFaq, f) ==
    LET kw == updateFaqKeywords(input, currentFaq)
    IN  [f EXCEPT
            !.category = IF Has(input.category) THEN Val(input.category) ELSE @,
            !.question = IF Has(input.question) THEN Val(input.question) ELSE @,
            !.answer = IF Has(input.answer) THEN Val(input.answer) ELSE @,
            !.is_active = IF Has(input.is_active) THEN Val(input.is_active) ELSE @,
            !.keywords = IF Has(kw) THEN Val(kw) ELSE @]


(***************************************************************************)
(* Schools and accounts: the input schemas of the school and user routes   *)
(* and the password hashes.  A password hash is kept as the format of its  *)
(* text and the values that determine the digest.  A field that is         *)
(* nullable holds Absent for null or Some(v); an input field that is       *)
(* nullable and optional holds Absent for undefined, Some(Absent) for null *)
(* or Some(Some(v)).  Names, domains, locations and phone numbers are      *)
(* strings; an e-mail address is a sequence of characters.                 *)
(***************************************************************************)
\* if (v) on an optional number: supplied, not null and not 0
Truthy(o) == Has(o) /\ Val(o) # 0

\* v || null on a nullable optional text, empty being the empty text:
\* undefined, null and the empty text give null
OrNull(o, empty) ==
    IF Has(o) /\ Has(Val(o)) /\ Val(Val(o)) # empty THEN Val(o) ELSE Absent

Letters == DOMAIN LowerCaseOf \cup {LowerCaseOf[ch] : ch \in DOMAIN LowerCaseOf}

AlphaNum == WordChars \ {"_"}

\* z.string().email(): a local part of letters, digits and _ ' + - . that
\* neither starts nor ends with a dot and does not end with an apostrophe,
\* an @, then labels of letters, digits and hyphens that start with a letter
\* or digit, a dot after each, then two or more letters; no two dots side by
\* side
IsEmail(text) ==
    \E at \in 1..Len(text) :
        LET local == SubSeq(text, 1, at - 1)
            host == SubSeq(text, at + 1, Len(text))
            dots == {i \in DOMAIN host : host[i] = "."}
        IN  /\ text[at] = "@"
            /\ Len(local) >= 1
            /\ local[1] # "."
            /\ \A i \in DOMAIN local : local[i] \in WordChars \cup {"'", "+", "-", "."}
            /\ local[Len(local)] \in WordChars \cup {"+", "-"}
            /\ \A i \in 1..(Len(text) - 1) : ~(text[i] = "." /\ text[i + 1] = ".")
            /\ dots # {}
            /\ \A i \in DOMAIN host : host[i] \in AlphaNum \cup {"-", "."}
            /\ host[1] \in AlphaNum
            /\ \A i \in dots : i < Len(host) /\ host[i + 1] \in AlphaNum
            /\ Len(host) - Max(dots) >= 2
            /\ \A i \in (Max(dots) + 1)..Len(host) : host[i] \in Letters

\* z.string().email().nullable().optional()
NullableOptionalEmail(o) == (Has(o) /\ Has(Val(o))) => IsEmail(Val(Val(o)))

\* createSchoolInputSchema.parse succeeds
createSchoolInputSchema(input) ==
    /\ Len(input.name) >= 1
    /\ Len(input.domain) >= 1
    /\ NullableOptionalEmail(input.contact_email)

\* updateSchoolInputSchema.parse succeeds
updateSchoolInputSchema(input) ==
    /\ Has(input.name) => Len(Val(input.name)) >= 1
    /\ Has(input.domain) => Len(Val(input.domain)) >= 1
    /\ NullableOptionalEmail(input.contact_email)

\* crypto.randomBytes(16).toString('hex'): the salts a call may draw
Salts == {"5a17", "c0de"}

\* crypto.pbkdf2Sync(password, salt, 1000, 64, 'sha512').toString('hex') + ':' + salt
pbkdf2Hash(password, salt) ==
    [format |-> "<hex>:<salt>", algorithm |-> "pbkdf2-sha512",
     password |-> password, salt |-> salt]

\* await Bun.password.hash(password): a PHC string of argon2id
BunPasswordHash(password, salt) ==
    [format |-> "$argon2id$", algorithm |-> "argon2id", password |-> password, salt |-> salt]

\* the hash formats Bun.password.verify recognises by their prefix
BunHashFormats == {"$argon2id$", "$argon2i$", "$argon2d$", "$2a$", "$2b$", "$2y$"}

\* await Bun.password.verify(password, hash): the outcomes it may have.  A
\* hash in none of its formats is not verified: the call rejects, or answers
\* false
BunPasswordVerify(password, hash) ==
    IF hash.format \in BunHashFormats
    THEN {IF hash.password = password THEN "true" ELSE "false"}
    ELSE {"throws", "false"}

UserRole == {"super_admin", "school_admin"}

\* createUserInputSchema.parse succeeds
createUserInputSchema(input) ==
    /\ Len(input.username) >= 3
    /\ Len(input.password) >= 6
    /\ input.role \in UserRole
    /\ Len(input.full_name) >= 1
    /\ IsEmail(input.email)

\* updateUserInputSchema.parse succeeds
updateUserInputSchema(input) ==
    /\ Has(input.username) => Len(Val(input.username)) >= 3
    /\ Has(input.password) => Len(Val(input.password)) >= 6
    /\ Has(input.role) => Val(input.role) \in UserRole
    /\ Has(input.full_name) => Len(Val(input.full_name)) >= 1
    /\ Has(input.email) => IsEmail(Val(input.email))

(***************************************************************************)
(* Inputs of the calls.                                                    *)
(***************************************************************************)
T_abc == <<"a", "b", "c">>
T_Abc == <<"A", "b", "c">>
T_ABC == <<"A", "B", "C">>
T_xyz == <<"x", "y", "z">>
T_zzz == <<"z", "z", "z">>
T_de == <<"d", "e">>
T_ab == <<"a", "b">>
T_abq == <<"a", "b", "?">>
T_a_c == <<"a", "_", "c">>
T_aBc == <<"a", Backslash, "c">>
T_X1 == <<"X", "1">>
T_blank_ab == <<" ", "a", "b", " ">>
T_zzz_xyz == <<"z", "z", "z", "\t", " ", "x", "y", "z">>

Domains == {"a.edu", "b.edu", "x.edu"}

E_contact == <<"c", "@", "a", ".", "e", "d", "u">>
E_office == <<"o", ".", "k", "@", "x", "-", "1", ".", "e", "d", "u">>
E_ann == <<"a", "n", "n", "@", "a", ".", "e", "d", "u">>
E_noTld == <<"a", "@", "b">>
E_dots == <<"a", ".", ".", "b", "@", "c", ".", "e", "d", "u">>

\* the schools of the store: two active tenants, the first with the contact
\* data of the test school
InitSchools ==
    {[id |-> 1, name |-> "A High", domain |-> "a.edu", location |-> Some("A City"),
      contact_email |-> Some(E_contact), contact_phone |-> Some("+1-555-0123"),
      is_active |-> TRUE, created_at |-> 0, updated_at |-> 0],
     [id |-> 2, name |-> "B High", domain |-> "b.edu", location |-> Absent,
      contact_email |-> Absent, contact_phone |-> Absent,
      is_active |-> TRUE, created_at |-> 0, updated_at |-> 0]}

\* the FAQ every seeded row was created from
SeedInput ==
    [school_id |-> 1, category |-> "admissions", question |-> T_abc, answer |-> T_de,
     keywords |-> Absent]

\* the store holds one FAQ, or as many as one page of search results
SeedSizes == {1, LIMIT}

CreateInputs ==
    {[school_id |-> 1, category |-> "admissions", question |-> T_Abc, answer |-> T_xyz,
      keywords |-> Absent],
     [school_id |-> 1, category |-> "campus_life", question |-> T_abq, answer |-> T_de,
      keywords |-> Absent],
     [school_id |-> 1, category |-> "campus_life", question |-> T_aBc, answer |-> T_a_c,
      keywords |-> Some(<<T_X1>>)],
     [school_id |-> 2, category |-> "admissions", question |-> T_abc, answer |-> T_de,
      keywords |-> Some(<<>>)],
     [school_id |-> 9, category |-> "admissions", question |-> T_abc, answer |-> T_de,
      keywords |-> Absent],
     [school_id |-> 1, category |-> "admissions", question |-> <<>>, answer |-> T_abc,
      keywords |-> Absent],
     [school_id |-> 1, category |-> "sports", question |-> T_abc, answer |-> T_de,
      keywords |-> Absent]}

NoUpdate ==
    [category |-> Absent, question |-> Absent, answer |-> Absent, keywords |-> Absent,
     is_active |-> Absent]

UpdateFields ==
    {NoUpdate,
     [NoUpdate EXCEPT !.is_active = Some(FALSE)],
     [NoUpdate EXCEPT !.is_active = Some(TRUE)],
     [NoUpdate EXCEPT !.question = Some(T_xyz)],
     [NoUpdate EXCEPT !.keywords = Some(<<>>)],
     [NoUpdate EXCEPT !.category = Some("general_info"), !.answer = Some(T_ab)],
     [NoUpdate EXCEPT !.question = Some(T_zzz), !.keywords = Some(<<T_abc>>)],
     [NoUpdate EXCEPT !.answer = Some(<<>>)],
     [NoUpdate EXCEPT !.category = Some("sports")]}

\* ids a caller names: the oldest row, the newest row, a row that never existed
TargetIds == {1, nextId - 1, nextId}

Queries == {<<>>, T_blank_ab, T_ABC, T_a_c, T_aBc, T_zzz_xyz}

SearchInputs ==
    {[school_domain |-> "a.edu", query |-> q, category |-> c] :
        q \in Queries, c \in {Absent, Some("campus_life")}}
    \cup {[school_domain |-> d, query |-> q, category |-> Absent] :
        d \in {"b.edu", "x.edu"}, q \in {<<>>, T_ABC}}

CategoryInputs ==
    {[school_domain |-> d, category |-> c] :
        d \in {"a.edu", "x.edu"}, c \in {"admissions", "campus_life"}}


DeleteInputs == {[id |-> id] : id \in TargetIds}

UpdateInputs == {[id |-> id] @@ fields : id \in TargetIds, fields \in UpdateFields}

NoSchoolUpdate ==
    [name |-> Absent, domain |-> Absent, location |-> Absent, contact_email |-> Absent,
     contact_phone |-> Absent, is_active |-> Absent]

SchoolUpdates ==
    {[id |-> 1] @@ [NoSchoolUpdate EXCEPT !.is_active = Some(FALSE)],
     [id |-> 1] @@ [NoSchoolUpdate EXCEPT !.is_active = Some(TRUE)],
     [id |-> 9] @@ [NoSchoolUpdate EXCEPT !.is_active = Some(FALSE)],
     [id |-> 2] @@ [NoSchoolUpdate EXCEPT !.domain = Some("x.edu"),
                                          !.contact_email = Some(Some(E_office))],
     [id |-> 2] @@ [NoSchoolUpdate EXCEPT !.domain = Some("a.edu"), !.name = Some("A")],
     [id |-> 1] @@ [NoSchoolUpdate EXCEPT !.name = Some("")],
     [id |-> 1] @@ [NoSchoolUpdate EXCEPT !.location = Some(Absent),
                                          !.contact_phone = Some(Some(""))],
     [id |-> 1] @@ [NoSchoolUpdate EXCEPT !.contact_email = Some(Some(E_noTld))],
     [id |-> 1] @@ NoSchoolUpdate}

NoSchoolContact == [location |-> Absent, contact_email |-> Absent, contact_phone |-> Absent]

CreateSchoolInputs ==
    {[name |-> "X School", domain |-> "x.edu"] @@
        [NoSchoolContact EXCEPT !.location = Some(Some("")),
                                !.contact_email = Some(Some(E_office)),
                                !.contact_phone = Some(Absent)],
     [name |-> "A High", domain |-> "a.edu"] @@ NoSchoolContact,
     [name |-> "", domain |-> "y.edu"] @@ NoSchoolContact,
     [name |-> "Y School", domain |-> "y.edu"] @@
        [NoSchoolContact EXCEPT !.contact_email = Some(Some(E_dots))]}

DeleteSchoolInputs == {[id |-> 1], [id |-> 9]}

U_ann == <<"a", "n", "n">>
U_bob == <<"b", "o", "b">>
U_tester == <<"t", "e", "s", "t", "e", "r">>
P_secret == <<"s", "e", "c", "r", "e", "t">>
P_hunter2 == <<"h", "u", "n", "t", "e", "r", "2">>
P_short == <<"a", "b", "c">>

\* the user the tests insert, its password hashed by Bun.password.hash
FixtureUser ==
    [id |-> 1, username |-> U_tester, password_hash |-> BunPasswordHash(P_secret, "f00d"),
     role |-> "school_admin", school_id |-> Some(1), full_name |-> "Test User",
     email |-> E_contact, is_active |-> TRUE, created_at |-> 0, updated_at |-> 0]

InitUsers == {FixtureUser}

CreateUserInputs ==
    {[username |-> U_ann, password |-> P_secret, role |-> "school_admin",
      school_id |-> Some(1), full_name |-> "Ann", email |-> E_ann],
     [username |-> U_bob, password |-> P_hunter2, role |-> "super_admin",
      school_id |-> Absent, full_name |-> "Bob", email |-> E_office],
     [username |-> U_tester, password |-> P_hunter2, role |-> "school_admin",
      school_id |-> Some(9), full_name |-> "T", email |-> E_ann],
     [username |-> U_tester, password |-> P_hunter2, role |-> "super_admin",
      school_id |-> Some(0), full_name |-> "T", email |-> E_ann],
     [username |-> U_bob, password |-> P_short, role |-> "super_admin",
      school_id |-> Absent, full_name |-> "Bob", email |-> E_office],
     [username |-> U_bob, password |-> P_hunter2, role |-> "super_admin",
      school_id |-> Absent, full_name |-> "Bob", email |-> E_noTld],
     [username |-> U_ann, password |-> P_secret, role |-> "school_admin",
      school_id |-> Some(1), full_name |-> "", email |-> E_ann]}

NoUserUpdate ==
    [username |-> Absent, password |-> Absent, role |-> Absent, school_id |-> Absent,
     full_name |-> Absent, email |-> Absent, is_active |-> Absent]

UserUpdateFields ==
    {NoUserUpdate,
     [NoUserUpdate EXCEPT !.password = Some(P_hunter2)],
     [NoUserUpdate EXCEPT !.is_active = Some(FALSE)],
     [NoUserUpdate EXCEPT !.school_id = Some(Some(2)), !.role = Some("school_admin")],
     [NoUserUpdate EXCEPT !.school_id = Some(Absent), !.role = Some("super_admin")],
     [NoUserUpdate EXCEPT !.username = Some(U_tester)],
     [NoUserUpdate EXCEPT !.password = Some(P_short)],
     [NoUserUpdate EXCEPT !.full_name = Some("Ann B"), !.email = Some(E_ann)],
     [NoUserUpdate EXCEPT !.email = Some(E_dots)]}

UpdateUserInputs == {[id |-> id] @@ fields : id \in {1, 2, 9}, fields \in UserUpdateFields}

DeleteUserInputs == {[id |-> 1], [id |-> 2]}

LoginInputs ==
    {[username |-> u, password |-> p] :
        u \in {U_ann, U_bob, U_tester}, p \in {P_secret, P_hunter2}}

(***************************************************************************)
(* The state machine.  The server answers requests concurrently: a handler *)
(* runs from one awaited store call to the next in one step, and the steps *)
(* of the calls in flight interleave.  A handler that reads the time       *)
(* before its first store call does so in a step of its own.  calls[r]     *)
(* holds the call request slot r is serving: its input, where it stands    *)
(* (pc) and the values its local constants hold, the time it has read      *)
(* among them.  The step that ends a call puts its response in resp and    *)
(* frees the slot; Reply hands the response to the client.                 *)
(***************************************************************************)
Idle == [op |-> "idle"]

Requests == 1..MaxRequests

NoCall == [op |-> "none", pc |-> "idle"]

\* a call arrives: it takes the first free slot
Arrives(r) ==
    /\ resp = Idle
    /\ ops < MaxOps
    /\ calls[r] = NoCall
    /\ \A q \in Requests : q < r => calls[q] # NoCall
    /\ ops' = ops + 1

\* the call of slot r has come back from the store call it awaited at pc
Resumes(r, op, pc) ==
    /\ resp = Idle
    /\ calls[r].op = op
    /\ calls[r].pc = pc
    /\ ops' = ops

\* the call of slot r awaits its next store call
Awaits(r, call) ==
    /\ calls' = [calls EXCEPT ![r] = call]
    /\ resp' = resp

\* the call of slot r returns or throws
Answers(r, response) ==
    /\ calls' = [calls EXCEPT ![r] = NoCall]
    /\ resp' = response

\* the FAQ tables the behaviours start from: n times the seeded FAQ, or the
\* rows left by four creations and a deactivation: two categories of school
\* 1, an inactive FAQ of school 1 and an FAQ of school 2
InitFaqs ==
    {{createFaqRow(SeedInput, CreatedBy, i, i) : i \in 1..n} : n \in SeedSizes}
    \cup
    {{createFaqRow(SeedInput, CreatedBy, 1, 1),
      createFaqRow([SeedInput EXCEPT !.category = "campus_life", !.question = T_aBc,
                                     !.answer = T_a_c, !.keywords = Some(<<T_X1>>)],
                   CreatedBy, 2, 2),
      [createFaqRow([SeedInput EXCEPT !.question = T_Abc, !.answer = T_xyz], CreatedBy, 3, 2)
            EXCEPT !.is_active = FALSE],
      createFaqRow([SeedInput EXCEPT !.school_id = 2], CreatedBy, 4, 3)}}

Init ==
    /\ schools = InitSchools
    /\ nextSchoolId = 3
    /\ \E rows \in InitFaqs :
        /\ faqs = rows
        /\ nextId = Cardinality(rows) + 1
        /\ clock = Max({f.created_at : f \in rows})
    /\ ops = 0
    /\ resp = Idle
    /\ calls = [r \in Requests |-> NoCall]
    /\ users = InitUsers
    /\ nextUserId = 2

(***************************************************************************)
(* handlers/faqs.ts                                                        *)
(***************************************************************************)
\* searchFaqs up to const faqs = await query...limit(20); seen records the
\* store the query ran on
searchFaqsSelectFaqs(r, input) ==
    /\ Arrives(r)
    /\ \E result \in searchFaqsQuery(faqs, schools, input) :
            Awaits(r, [op |-> "searchFaqs", pc |-> "categories", input |-> input,
                       faqs |-> result, seen |-> [faqs |-> faqs, schools |-> schools]])
    /\ UNCHANGED <<schools, nextSchoolId, faqs, nextId, clock, users, nextUserId>>

\* searchFaqs from the categories query to its return
searchFaqsSelectCategories(r) ==
    /\ Resumes(r, "searchFaqs", "categories")
    /\ \E cats \in suggestedCategories(faqs, schools, calls[r].input) :
            Answers(r, [op |-> "searchFaqs", input |-> calls[r].input,
                        faqs |-> calls[r].faqs,
                        suggested_categories |-> cats,
                        total_results |-> totalResults(calls[r].input, calls[r].faqs),
                        seen |-> calls[r].seen])
    /\ UNCHANGED <<schools, nextSchoolId, faqs, nextId, clock, users, nextUserId>>

getAvailableCategories(r, schoolDomain) ==
    /\ Arrives(r)
    /\ \E cats \in getAvailableCategoriesQuery(faqs, schools, schoolDomain) :
            Answers(r, [op |-> "getAvailableCategories", input |-> schoolDomain,
                        categories |-> cats])
    /\ UNCHANGED <<schools, nextSchoolId, faqs, nextId, clock, users, nextUserId>>

getFaqsByCategory(r, input) ==
    /\ Arrives(r)
    /\ \E result \in getFaqsByCategoryQuery(faqs, schools, input) :
            Answers(r, [op |-> "getFaqsByCategory", input |-> input, faqs |-> result])
    /\ UNCHANGED <<schools, nextSchoolId, faqs, nextId, clock, users, nextUserId>>

\* faqs.create: parse, then createFaq up to its school lookup; schoolsAtCheck
\* records the ids of the schools in the store at that moment
createFaqSelectSchool(r, input) ==
    /\ Arrives(r)
    /\ nextId <= Max(SeedSizes) + MaxNew
    /\ IF ~createFaqInputSchema(input)
       THEN Answers(r, [op |-> "createFaq", input |-> input, error |-> "BAD_REQUEST"])
       ELSE IF ~schoolExists(schools, input.school_id)
       THEN Answers(r, [op |-> "createFaq", input |-> input, error |-> "School not found"])
       ELSE Awaits(r, [op |-> "createFaq", pc |-> "insert", input |-> input,
                       schoolsAtCheck |-> {s.id : s \in schools}])
    /\ UNCHANGED <<schools, nextSchoolId, faqs, nextId, clock, users, nextUserId>>

\* createFaq from the keywords to the insert and the return of results[0];
\* schoolsAtInsert records the ids of the schools in the store at that moment
createFaqInsert(r) ==
    /\ Resumes(r, "createFaq", "insert")
    /\ \E now \in {clock, clock + 1} :
        LET row == createFaqRow(calls[r].input, CreatedBy, nextId, now)
        IN  /\ faqs' = faqs \cup {row}
            /\ nextId' = nextId + 1
            /\ clock' = now
            /\ Answers(r, [op |-> "createFaq", input |-> calls[r].input, error |-> "",
                           row |-> row,
                           schoolsAtCheck |-> calls[r].schoolsAtCheck,
                           schoolsAtInsert |-> {s.id : s \in schools}])
    /\ UNCHANGED <<schools, nextSchoolId, users, nextUserId>>

\* faqs.update: parse, then updateFaq up to const currentFaq = await
\* getFaqById(input.id)
updateFaqSelect(r, input) ==
    /\ Arrives(r)
    /\ LET currentFaq == getFaqById(faqs, input.id)
       IN  IF ~updateFaqInputSchema(input)
           THEN Answers(r, [op |-> "updateFaq", input |-> input, error |-> "BAD_REQUEST"])
           ELSE IF ~Has(currentFaq)
           THEN Answers(r, [op |-> "updateFaq", input |-> input, error |-> "FAQ not found"])
           ELSE Awaits(r, [op |-> "updateFaq", pc |-> "update", input |-> input,
                           currentFaq |-> Val(currentFaq)])
    /\ UNCHANGED <<schools, nextSchoolId, faqs, nextId, clock, users, nextUserId>>

\* updateFaq from updateValues to db.update(faqsTable).set(updateValues)
\* .where(eq(faqsTable.id, input.id)).returning() and return results[0].  The
\* response has a row when the update matched one; results[0] is undefined
\* when it matched none.  The response records what the call worked from:
\* currentFaq as the select read it, and the row the statement replaced.
updateFaqUpdate(r) ==
    /\ Resumes(r, "updateFaq", "update")
    /\ LET input == calls[r].input
           currentFaq == calls[r].currentFaq
           results == {f \in faqs : f.id = input.id}
           done == [op |-> "updateFaq", input |-> input, before |-> currentFaq]
       IN  IF NoValues(input)
           THEN /\ Answers(r, done @@ [error |-> "No values to set"])
                /\ faqs' = faqs
           ELSE /\ faqs' = (faqs \ results) \cup
                               {updateFaqRow(input, currentFaq, f) : f \in results}
                /\ IF results = {}
                   THEN Answers(r, done @@ [error |-> "", returned |-> "undefined"])
                   ELSE LET f == CHOOSE g \in results : TRUE
                        IN  Answers(r, done @@ [error |-> "", replaced |-> f,
                                                row |-> updateFaqRow(input, currentFaq, f)])
    /\ UNCHANGED <<schools, nextSchoolId, nextId, clock, users, nextUserId>>

\* deleteFaq: its one store call
deleteFaq(r, input) ==
    /\ Arrives(r)
    /\ LET results == deleteFaqResults(faqs, input.id)
       IN  /\ faqs' = faqs \ results
           /\ Answers(r, [op |-> "deleteFaq", input |-> input,
                          success |-> deleteFaqSuccess(results)])
    /\ UNCHANGED <<schools, nextSchoolId, nextId, clock, users, nextUserId>>

(***************************************************************************)
(* handlers/schools.ts                                                     *)
(***************************************************************************)
\* the error of a unique index on an insert or update of a value it holds
UniqueViolation == "duplicate key value violates unique constraint"

\* the row of db.insert(schoolsTable).values({...}).returning()
createSchoolRow(input, id, now) ==
    [id |-> id,
     name |-> input.name,
     domain |-> input.domain,
     location |-> OrNull(input.location, ""),
     contact_email |-> OrNull(input.contact_email, <<>>),
     contact_phone |-> OrNull(input.contact_phone, ""),
     is_active |-> TRUE,
     created_at |-> now,
     updated_at |-> now]

\* schools.create: parse, then createSchool.  The insert of a domain that is
\* taken fails on the unique index after the serial has advanced.
createSchool(r, input) ==
    /\ Arrives(r)
    /\ IF ~createSchoolInputSchema(input)
       THEN /\ Answers(r, [op |-> "createSchool", input |-> input, error |-> "BAD_REQUEST"])
            /\ UNCHANGED <<schools, nextSchoolId, clock>>
       ELSE IF \E s \in schools : s.domain = input.domain
       THEN /\ Answers(r, [op |-> "createSchool", input |-> input, error |-> UniqueViolation])
            /\ nextSchoolId' = nextSchoolId + 1
            /\ UNCHANGED <<schools, clock>>
       ELSE \E now \in {clock, clock + 1} :
            LET row == createSchoolRow(input, nextSchoolId, now)
            IN  /\ schools' = schools \cup {row}
                /\ nextSchoolId' = nextSchoolId + 1
                /\ clock' = now
                /\ Answers(r, [op |-> "createSchool", input |-> input, error |-> "",
                               row |-> row])
    /\ UNCHANGED <<faqs, nextId, users, nextUserId>>

\* the row after db.update(schoolsTable).set(updateData).where(eq(id))
updateSchoolRow(input, now, s) ==
    [s EXCEPT
        !.updated_at = now,
        !.name = IF Has(input.name) THEN Val(input.name) ELSE @,
        !.domain = IF Has(input.domain) THEN Val(input.domain) ELSE @,
        !.location = IF Has(input.location) THEN Val(input.location) ELSE @,
        !.contact_email = IF Has(input.contact_email) THEN Val(input.contact_email) ELSE @,
        !.contact_phone = IF Has(input.contact_phone) THEN Val(input.contact_phone) ELSE @,
        !.is_active = IF Has(input.is_active) THEN Val(input.is_active) ELSE @]

\* schools.update: parse, then updateSchool up to its awaited update:
\* updateData is built, its updated_at being new Date() read at this moment
updateSchoolUpdateData(r, input) ==
    /\ Arrives(r)
    /\ IF ~updateSchoolInputSchema(input)
       THEN /\ Answers(r, [op |-> "updateSchool", input |-> input, error |-> "BAD_REQUEST"])
            /\ clock' = clock
       ELSE \E now \in {clock, clock + 1} :
            /\ clock' = now
            /\ Awaits(r, [op |-> "updateSchool", pc |-> "update", input |-> input,
                          updateData |-> [updated_at |-> now]])
    /\ UNCHANGED <<schools, nextSchoolId, faqs, nextId, users, nextUserId>>

\* updateSchool: the update, which fails on the unique index when it gives a
\* row the domain of another school, and the check of its result
updateSchoolUpdate(r) ==
    /\ Resumes(r, "updateSchool", "update")
    /\ LET input == calls[r].input
           now == calls[r].updateData.updated_at
           result == {s \in schools : s.id = input.id}
           done == [op |-> "updateSchool", input |-> input]
       IN  IF /\ result # {}
              /\ Has(input.domain)
              /\ \E s \in schools \ result : s.domain = Val(input.domain)
           THEN /\ Answers(r, done @@ [error |-> UniqueViolation])
                /\ UNCHANGED schools
           ELSE IF result = {}
           THEN /\ Answers(r, done @@ [error |-> "School with id " \o ToString(input.id)
                                                    \o " not found"])
                /\ UNCHANGED schools
           ELSE /\ schools' = (schools \ result) \cup
                                    {updateSchoolRow(input, now, s) : s \in result}
                /\ Answers(r, done @@ [error |-> "",
                                       row |-> updateSchoolRow(input, now,
                                                   CHOOSE s \in result : TRUE)])
    /\ UNCHANGED <<nextSchoolId, faqs, nextId, clock, users, nextUserId>>

\* deleteSchool: db.delete(faqsTable).where(eq(faqsTable.school_id, input.id))
deleteSchoolDeleteFaqs(r, input) ==
    /\ Arrives(r)
    /\ faqs' = {f \in faqs : f.school_id # input.id}
    /\ Awaits(r, [op |-> "deleteSchool", pc |-> "users", input |-> input])
    /\ UNCHANGED <<schools, nextSchoolId, nextId, clock, users, nextUserId>>

\* deleteSchool: db.delete(usersTable).where(eq(usersTable.school_id, input.id))
deleteSchoolDeleteUsers(r) ==
    /\ Resumes(r, "deleteSchool", "users")
    /\ users' = {u \in users : u.school_id # Some(calls[r].input.id)}
    /\ Awaits(r, [calls[r] EXCEPT !.pc = "school"])
    /\ UNCHANGED <<schools, nextSchoolId, faqs, nextId, clock, nextUserId>>

\* deleteSchool: db.delete(schoolsTable).where(eq(schoolsTable.id, input.id))
\* .returning() and return { success: result.length > 0 }
deleteSchoolDeleteSchool(r) ==
    /\ Resumes(r, "deleteSchool", "school")
    /\ LET result == {s \in schools : s.id = calls[r].input.id}
       IN  /\ schools' = schools \ result
           /\ Answers(r, [op |-> "deleteSchool", input |-> calls[r].input,
                          success |-> Cardinality(result) > 0])
    /\ UNCHANGED <<nextSchoolId, faqs, nextId, clock, users, nextUserId>>

(***************************************************************************)
(* handlers/users.ts and handlers/auth.ts                                  *)
(***************************************************************************)
\* the row of db.insert(usersTable).values({...}).returning()
createUserRow(input, salt, id, now) ==
    [id |-> id,
     username |-> input.username,
     password_hash |-> pbkdf2Hash(input.password, salt),
     role |-> input.role,
     school_id |-> IF Truthy(input.school_id) THEN input.school_id ELSE Absent,
     full_name |-> input.full_name,
     email |-> input.email,
     is_active |-> TRUE,
     created_at |-> now,
     updated_at |-> now]

\* createUser from the password hash to the insert and the return of
\* result[0].  The insert of a username that is taken fails on the unique
\* index after the serial has advanced.
createUserInsertInto(r, input) ==
    \E salt \in Salts :
        IF \E u \in users : u.username = input.username
        THEN /\ Answers(r, [op |-> "createUser", input |-> input, error |-> UniqueViolation])
             /\ nextUserId' = nextUserId + 1
             /\ UNCHANGED <<users, clock>>
        ELSE \E now \in {clock, clock + 1} :
             LET row == createUserRow(input, salt, nextUserId, now)
             IN  /\ users' = users \cup {row}
                 /\ nextUserId' = nextUserId + 1
                 /\ clock' = now
                 /\ Answers(r, [op |-> "createUser", input |-> input, error |-> "",
                                row |-> row])

\* users.create: parse, then createUser up to its first store call: the
\* school lookup if (input.school_id), the insert otherwise
createUserSelectSchool(r, input) ==
    /\ Arrives(r)
    /\ IF ~createUserInputSchema(input)
       THEN /\ Answers(r, [op |-> "createUser", input |-> input, error |-> "BAD_REQUEST"])
            /\ UNCHANGED <<users, nextUserId, clock>>
       ELSE IF ~Truthy(input.school_id)
       THEN createUserInsertInto(r, input)
       ELSE IF ~schoolExists(schools, Val(input.school_id))
       THEN /\ Answers(r, [op |-> "createUser", input |-> input, error |-> "School not found"])
            /\ UNCHANGED <<users, nextUserId, clock>>
       ELSE /\ Awaits(r, [op |-> "createUser", pc |-> "insert", input |-> input])
            /\ UNCHANGED <<users, nextUserId, clock>>
    /\ UNCHANGED <<schools, nextSchoolId, faqs, nextId>>

\* createUser after the school lookup
createUserInsert(r) ==
    /\ Resumes(r, "createUser", "insert")
    /\ createUserInsertInto(r, calls[r].input)
    /\ UNCHANGED <<schools, nextSchoolId, faqs, nextId>>

\* results[0] || null of getUserById, as an optional row
getUserById(us, id) ==
    IF \E u \in us : u.id = id THEN Some(CHOOSE u \in us : u.id = id) ELSE Absent

\* the row after db.update(usersTable).set(updateValues).where(eq(id)); a
\* school_id that is supplied is a number or null
updateUserRow(input, salt, now, u) ==
    [u EXCEPT
        !.updated_at = now,
        !.username = IF Has(input.username) THEN Val(input.username) ELSE @,
        !.password_hash = IF Has(input.password)
                          THEN pbkdf2Hash(Val(input.password), salt) ELSE @,
        !.role = IF Has(input.role) THEN Val(input.role) ELSE @,
        !.school_id = IF Has(input.school_id) THEN Val(input.school_id) ELSE @,
        !.full_name = IF Has(input.full_name) THEN Val(input.full_name) ELSE @,
        !.email = IF Has(input.email) THEN Val(input.email) ELSE @,
        !.is_active = IF Has(input.is_active) THEN Val(input.is_active) ELSE @]

\* updateUser from updateValues to the point where it awaits the update:
\* updated_at is new Date() read at this moment, and a salt is drawn when a
\* password is supplied
updateUserUpdateValues(r, input) ==
    \E now \in {clock, clock + 1}, salt \in IF Has(input.password) THEN Salts ELSE {"none"} :
        /\ clock' = now
        /\ Awaits(r, [op |-> "updateUser", pc |-> "update", input |-> input,
                      updateValues |-> [updated_at |-> now, salt |-> salt]])

\* users.update: parse, then updateUser up to const existingUser = await
\* getUserById(input.id) and on to its next store call: the school lookup
\* when a school_id other than null is supplied, the update otherwise
updateUserSelect(r, input) ==
    /\ Arrives(r)
    /\ IF ~updateUserInputSchema(input)
       THEN /\ Answers(r, [op |-> "updateUser", input |-> input, error |-> "BAD_REQUEST"])
            /\ clock' = clock
       ELSE IF ~Has(getUserById(users, input.id))
       THEN /\ Answers(r, [op |-> "updateUser", input |-> input, error |-> "User not found"])
            /\ clock' = clock
       ELSE IF Has(input.school_id) /\ Has(Val(input.school_id))
       THEN /\ Awaits(r, [op |-> "updateUser", pc |-> "school", input |-> input])
            /\ clock' = clock
       ELSE updateUserUpdateValues(r, input)
    /\ UNCHANGED <<schools, nextSchoolId, faqs, nextId, users, nextUserId>>

\* updateUser: the school lookup, then on to the update
updateUserSelectSchool(r) ==
    /\ Resumes(r, "updateUser", "school")
    /\ IF ~schoolExists(schools, Val(Val(calls[r].input.school_id)))
       THEN /\ Answers(r, [op |-> "updateUser", input |-> calls[r].input,
                           error |-> "School not found"])
            /\ clock' = clock
       ELSE updateUserUpdateValues(r, calls[r].input)
    /\ UNCHANGED <<schools, nextSchoolId, faqs, nextId, users, nextUserId>>

\* updateUser: the update and the return of result[0]; the update fails on
\* the unique index when it gives a row the username of another user, and
\* result[0] is undefined when it matched no row
updateUserUpdate(r) ==
    /\ Resumes(r, "updateUser", "update")
    /\ LET input == calls[r].input
           now == calls[r].updateValues.updated_at
           salt == calls[r].updateValues.salt
           result == {u \in users : u.id = input.id}
           done == [op |-> "updateUser", input |-> input]
       IN  IF /\ result # {}
              /\ Has(input.username)
              /\ \E u \in users \ result : u.username = Val(input.username)
           THEN /\ Answers(r, done @@ [error |-> UniqueViolation])
                /\ UNCHANGED users
           ELSE /\ users' = (users \ result) \cup
                                {updateUserRow(input, salt, now, u) : u \in result}
                /\ IF result = {}
                   THEN Answers(r, done @@ [error |-> "", returned |-> "undefined"])
                   ELSE Answers(r, done @@ [error |-> "",
                                            row |-> updateUserRow(input, salt, now,
                                                        CHOOSE u \in result : TRUE)])
    /\ UNCHANGED <<schools, nextSchoolId, faqs, nextId, clock, nextUserId>>

\* deleteUser up to const existingUser = await getUserById(input.id)
deleteUserSelect(r, input) ==
    /\ Arrives(r)
    /\ IF ~Has(getUserById(users, input.id))
       THEN Answers(r, [op |-> "deleteUser", input |-> input, error |-> "User not found"])
       ELSE Awaits(r, [op |-> "deleteUser", pc |-> "delete", input |-> input])
    /\ UNCHANGED <<schools, nextSchoolId, faqs, nextId, clock, users, nextUserId>>

\* deleteUser: the delete and return { success: true }
deleteUserDelete(r) ==
    /\ Resumes(r, "deleteUser", "delete")
    /\ users' = {u \in users : u.id # calls[r].input.id}
    /\ Answers(r, [op |-> "deleteUser", input |-> calls[r].input, error |-> "",
                   success |-> TRUE])
    /\ UNCHANGED <<schools, nextSchoolId, faqs, nextId, clock, nextUserId>>

\* the AuthUser login returns: the user without the password hash
AuthUser(user) ==
    [id |-> user.id, username |-> user.username, role |-> user.role,
     school_id |-> user.school_id, full_name |-> user.full_name, email |-> user.email]

\* auth.login: login up to the select of the user and the checks on it
loginSelect(r, input) ==
    /\ Arrives(r)
    /\ LET found == {u \in users : u.username = input.username}
       IN  IF found = {}
           THEN Answers(r, [op |-> "login", input |-> input,
                            error |-> "Invalid username or password"])
           ELSE LET user == CHOOSE u \in found : TRUE
                IN  IF ~user.is_active
                    THEN Answers(r, [op |-> "login", input |-> input,
                                     error |-> "User account is disabled"])
                    ELSE Awaits(r, [op |-> "login", pc |-> "verify", input |-> input,
                                    user |-> user])
    /\ UNCHANGED <<schools, nextSchoolId, faqs, nextId, clock, users, nextUserId>>

\* login from await Bun.password.verify to its return
loginVerify(r) ==
    /\ Resumes(r, "login", "verify")
    /\ LET input == calls[r].input
           user == calls[r].user
       IN  \E passwordMatches \in BunPasswordVerify(input.password, user.password_hash) :
            CASE passwordMatches = "throws" ->
                    Answers(r, [op |-> "login", input |-> input,
                                error |-> "UnsupportedAlgorithm"])
              [] passwordMatches = "false" ->
                    Answers(r, [op |-> "login", input |-> input,
                                error |-> "Invalid username or password"])
              [] passwordMatches = "true" ->
                    Answers(r, [op |-> "login", input |-> input, error |-> "",
                                user |-> AuthUser(user)])
    /\ UNCHANGED <<schools, nextSchoolId, faqs, nextId, clock, users, nextUserId>>

\* the response of the call that ended is handed to its client
Reply ==
    /\ resp # Idle
    /\ resp' = Idle
    /\ UNCHANGED <<schools, nextSchoolId, faqs, nextId, clock, ops, calls, users, nextUserId>>

\* the procedures of appRouter: the three chatbot queries and every mutation.
\* The queries of the school, user and FAQ management routes read the store
\* and are left out.
Next ==
    \/ \E r \in Requests, input \in SearchInputs : searchFaqsSelectFaqs(r, input)
    \/ \E r \in Requests : searchFaqsSelectCategories(r)
    \/ \E r \in Requests, schoolDomain \in Domains : getAvailableCategories(r, schoolDomain)
    \/ \E r \in Requests, input \in CategoryInputs : getFaqsByCategory(r, input)
    \/ \E r \in Requests, input \in CreateInputs : createFaqSelectSchool(r, input)
    \/ \E r \in Requests : createFaqInsert(r)
    \/ \E r \in Requests, input \in UpdateInputs : updateFaqSelect(r, input)
    \/ \E r \in Requests : updateFaqUpdate(r)
    \/ \E r \in Requests, input \in DeleteInputs : deleteFaq(r, input)
    \/ \E r \in Requests, input \in CreateSchoolInputs : createSchool(r, input)
    \/ \E r \in Requests, input \in SchoolUpdates : updateSchoolUpdateData(r, input)
    \/ \E r \in Requests : updateSchoolUpdate(r)
    \/ \E r \in Requests, input \in DeleteSchoolInputs : deleteSchoolDeleteFaqs(r, input)
    \/ \E r \in Requests : deleteSchoolDeleteUsers(r)
    \/ \E r \in Requests : deleteSchoolDeleteSchool(r)
    \/ \E r \in Requests, input \in CreateUserInputs : createUserSelectSchool(r, input)
    \/ \E r \in Requests : createUserInsert(r)
    \/ \E r \in Requests, input \in UpdateUserInputs : updateUserSelect(r, input)
    \/ \E r \in Requests : updateUserSelectSchool(r)
    \/ \E r \in Requests : updateUserUpdate(r)
    \/ \E r \in Requests, input \in DeleteUserInputs : deleteUserSelect(r, input)
    \/ \E r \in Requests : deleteUserDelete(r)
    \/ \E r \in Requests, input \in LoginInputs : loginSelect(r, input)
    \/ \E r \in Requests : loginVerify(r)
    \/ Reply

Spec == Init /\ [][Next]_vars

(***************************************************************************)
(* The keyword extractor on its own: a question and an answer are drawn,   *)
(* then generateKeywords is applied to them.  The questions are all the    *)
(* texts of at most MaxLen characters over a small alphabet, the answers   *)
(* are a few longer texts with repeated words.                             *)
(***************************************************************************)
MaxLen == 3

Alphabet == {"a", "B", "_", "?", " "}

RECURSIVE TextsUpTo(_)
TextsUpTo(n) ==
    IF n = 0 THEN {<<>>}
    ELSE LET shorter == TextsUpTo(n - 1)
         IN  shorter \cup {Append(t, ch) : t \in {u \in shorter : Len(u) = n - 1}, ch \in Alphabet}

QuestionTexts == TextsUpTo(MaxLen)

AnswerTexts ==
    {<<>>, T_de, T_Abc, T_blank_ab,
     <<"a", "B", "_", "?", "A", "b", "_", " ", "a", "b">>,
     <<"B", "a", "a", "1", "\n", "b", "a", "a", "1", "X">>,
     <<"a", "_", "B", " ", "\t", "A", "_", "b", " ", "a", "?">>,
     <<"Z", "9", "q", "\r", "U+00A0", "k", "0", "_", "U+2028", "Q", "z">>}

InitText ==
    /\ schools = {}
    /\ nextSchoolId = 1
    /\ faqs = {}
    /\ nextId = 1
    /\ clock = 0
    /\ ops = 0
    /\ calls = [r \in Requests |-> NoCall]
    /\ users = {}
    /\ nextUserId = 1
    /\ \E q \in QuestionTexts, a \in AnswerTexts :
           resp = [op |-> "texts", question |-> q, answer |-> a]

applyGenerateKeywords ==
    /\ resp.op = "texts"
    /\ resp' = [op |-> "generateKeywords", question |-> resp.question, answer |-> resp.answer,
                keywords |-> generateKeywords(resp.question, resp.answer)]
    /\ UNCHANGED <<schools, nextSchoolId, faqs, nextId, clock, ops, calls, users, nextUserId>>

\* the tokenizer of searchFaqs applied to a query: one of the two texts, or
\* the first followed by the second
applySearchTerms ==
    /\ resp.op = "texts"
    /\ \E query \in {resp.question, resp.answer, resp.question \o resp.answer} :
          resp' = [op |-> "searchTerms", query |-> query, terms |-> searchTerms(query)]
    /\ UNCHANGED <<schools, nextSchoolId, faqs, nextId, clock, ops, calls, users, nextUserId>>

\* the keywords written out as one text, a space between neighbours
JoinWithSpaces(keywords) ==
    Flatten([i \in 1..Len(keywords) |->
                (IF i = 1 THEN <<>> ELSE <<" ">>) \o keywords[i]])

\* generateKeywords applied again, to the text of the keywords it derived
applyGenerateKeywordsAgain ==
    /\ resp.op = "generateKeywords"
    /\ LET text == JoinWithSpaces(resp.keywords)
       IN  resp' = [op |-> "generateKeywordsAgain", keywords |-> resp.keywords, text |-> text,
                    again |-> generateKeywords(text, <<>>)]
    /\ UNCHANGED <<schools, nextSchoolId, faqs, nextId, clock, ops, calls, users, nextUserId>>

NextText ==
    \/ applyGenerateKeywords
    \/ applySearchTerms
    \/ applyGenerateKeywordsAgain

SpecText == InitText /\ [][NextText]_vars

(***************************************************************************)
(* The search with a record store that can fail: either of the two         *)
(* queries of searchFaqs may raise an error, which the catch block of the  *)
(* handler logs and throws again.                                          *)
(***************************************************************************)
StoreErrors == {"ECONNREFUSED", "statement timeout"}

\* the two awaited store calls of searchFaqs, in their order
StoreCalls == {"faqs", "categories"}

\* a catch block that answers with what was read before the failure
searchFaqsCatch_Degraded(input, error, partial) ==
    [op |-> "searchFaqs", input |-> input, faqs |-> partial,
     suggested_categories |-> <<>>, total_results |-> Len(partial)]

\* catch (error) { console.error(...); throw error; }
searchFaqsCatch(input, error, partial) ==
    [op |-> "searchFaqs", input |-> input, error |-> error]

\* searchFaqs when its main query raises error.  The field failure records
\* what happened in the store.
searchFaqsSelectFaqsFails(r, input, error) ==
    /\ Arrives(r)
    /\ Answers(r, searchFaqsCatch(input, error, <<>>)
                    @@ [failure |-> [call |-> "faqs", error |-> error]])
    /\ UNCHANGED <<schools, nextSchoolId, faqs, nextId, clock, users, nextUserId>>

\* searchFaqs when its categories query raises error, the main query having
\* answered
searchFaqsSelectCategoriesFails(r, error) ==
    /\ Resumes(r, "searchFaqs", "categories")
    /\ Answers(r, searchFaqsCatch(calls[r].input, error, calls[r].faqs)
                    @@ [failure |-> [call |-> "categories", error |-> error]])
    /\ UNCHANGED <<schools, nextSchoolId, faqs, nextId, clock, users, nextUserId>>

NextStore ==
    \/ \E r \in Requests, input \in SearchInputs : searchFaqsSelectFaqs(r, input)
    \/ \E r \in Requests : searchFaqsSelectCategories(r)
    \/ \E r \in Requests, input \in SearchInputs, error \in StoreErrors :
            searchFaqsSelectFaqsFails(r, input, error)
    \/ \E r \in Requests, error \in StoreErrors : searchFaqsSelectCategoriesFails(r, error)
    \/ \E r \in Requests, input \in CreateInputs : createFaqSelectSchool(r, input)
    \/ \E r \in Requests : createFaqInsert(r)
    \/ Reply

SpecStore == Init /\ [][NextStore]_vars

(***************************************************************************)
(* Two requests on one FAQ of one school: the calls that race on it.       *)
(***************************************************************************)
ConcCreateInputs ==
    {[school_id |-> 1, category |-> "campus_life", question |-> T_Abc, answer |-> T_xyz,
      keywords |-> Absent]}

ConcUpdateInputs ==
    {[id |-> 1] @@ [NoUpdate EXCEPT !.question = Some(T_xyz)],
     [id |-> 1] @@ [NoUpdate EXCEPT !.answer = Some(T_zzz)],
     [id |-> 1] @@ [NoUpdate EXCEPT !.category = Some("general_info")]}

ConcSearchInputs == {[school_domain |-> "a.edu", query |-> <<>>, category |-> Absent]}

ConcIds == {[id |-> 1]}

InitConc ==
    /\ schools = InitSchools
    /\ nextSchoolId = 3
    /\ faqs = {createFaqRow(SeedInput, CreatedBy, 1, 1)}
    /\ nextId = 2
    /\ clock = 1
    /\ ops = 0
    /\ resp = Idle
    /\ calls = [r \in Requests |-> NoCall]
    /\ users = InitUsers
    /\ nextUserId = 2

NextConc ==
    \/ \E r \in Requests, input \in ConcCreateInputs : createFaqSelectSchool(r, input)
    \/ \E r \in Requests : createFaqInsert(r)
    \/ \E r \in Requests, input \in ConcIds : deleteSchoolDeleteFaqs(r, input)
    \/ \E r \in Requests : deleteSchoolDeleteUsers(r)
    \/ \E r \in Requests : deleteSchoolDeleteSchool(r)
    \/ \E r \in Requests, input \in ConcUpdateInputs : updateFaqSelect(r, input)
    \/ \E r \in Requests : updateFaqUpdate(r)
    \/ \E r \in Requests, input \in ConcIds : deleteFaq(r, input)
    \/ \E r \in Requests, input \in ConcSearchInputs : searchFaqsSelectFaqs(r, input)
    \/ \E r \in Requests : searchFaqsSelectCategories(r)
    \/ Reply

SpecConc == InitConc /\ [][NextConc]_vars

(***************************************************************************)
(* Accounts: the user routes and login on a store without FAQs.            *)
(***************************************************************************)
InitAuth ==
    /\ schools = InitSchools
    /\ nextSchoolId = 3
    /\ faqs = {}
    /\ nextId = 1
    /\ clock = 0
    /\ ops = 0
    /\ resp = Idle
    /\ calls = [r \in Requests |-> NoCall]
    /\ users = InitUsers
    /\ nextUserId = 2

NextAuth ==
    \/ \E r \in Requests, input \in CreateUserInputs : createUserSelectSchool(r, input)
    \/ \E r \in Requests : createUserInsert(r)
    \/ \E r \in Requests, input \in UpdateUserInputs : updateUserSelect(r, input)
    \/ \E r \in Requests : updateUserSelectSchool(r)
    \/ \E r \in Requests : updateUserUpdate(r)
    \/ \E r \in Requests, input \in DeleteUserInputs : deleteUserSelect(r, input)
    \/ \E r \in Requests : deleteUserDelete(r)
    \/ \E r \in Requests, input \in LoginInputs : loginSelect(r, input)
    \/ \E r \in Requests : loginVerify(r)
    \/ Reply

SpecAuth == InitAuth /\ [][NextAuth]_vars



(***************************************************************************)
(* Vocabulary of the properties, stated over the store and the response    *)
(* without the operators of the handlers.                                  *)
(***************************************************************************)
Range(q) == {q[i] : i \in DOMAIN q}

Min2(a, b) == IF a <= b THEN a ELSE b

\* tok occurs in text as a literal substring, letter case disregarded
ContainsCI(text, tok) ==
    \E k \in 0..(Len(text) - Len(tok)) :
        \A j \in 1..Len(tok) : toLowerCase(text[k + j]) = toLowerCase(tok[j])

\* tok occurs in the question, the answer or the keywords text of f
InSomeField(f, tok) ==
    \/ ContainsCI(f.question, tok)
    \/ ContainsCI(f.answer, tok)
    \/ ContainsCI(KeywordsText(f.keywords), tok)

Searched == resp.op = "searchFaqs"

\* the store the main query of the search ran on: other requests may have
\* written to the store since, before the search returned
SeenFaqs == resp.seen.faqs

SeenSchools == resp.seen.schools

\* the FAQs the search could return: the active FAQs of the active tenant
\* with the domain, in the category if given
Eligible(input) ==
    {f \in SeenFaqs :
        /\ f.is_active
        /\ \E s \in SeenSchools :
                s.id = f.school_id /\ s.domain = input.school_domain /\ s.is_active
        /\ Has(input.category) => f.category = Val(input.category)}

\* the query has no whitespace-free piece of three or more characters
NoToken(query) ==
    ~\E k \in 1..(Len(query) - 2) : \A j \in 0..2 : query[k + j] \notin Whitespace

\* the whitespace-free pieces of length >= 3 of the lower-cased query
Tokens(query) ==
    LET q == LowerText(query)
        piece(a, b) == /\ \A k \in a..b : q[k] \notin Whitespace
                       /\ a = 1 \/ q[a - 1] \in Whitespace
                       /\ b = Len(q) \/ q[b + 1] \in Whitespace
    IN  {SubSeq(q, x[1], x[2]) : x \in {y \in (1..Len(q)) \X (1..Len(q)) :
                                            y[2] - y[1] >= 2 /\ piece(y[1], y[2])}}

(***************************************************************************)
(* C1: every FAQ returned by searchFaqs is a row of the store the search   *)
(* read that is active, belongs to an active school with the requested     *)
(* domain and, when a category is supplied, has that category.             *)
(***************************************************************************)
C1_SearchIsTenantScoped ==
    Searched =>
        \A i \in 1..Len(resp.faqs) :
            LET f == resp.faqs[i]
            IN  /\ f \in SeenFaqs
                /\ f.is_active = TRUE
                /\ \E s \in SeenSchools :
                    /\ s.id = f.school_id
                    /\ s.domain = resp.input.school_domain
                    /\ s.is_active = TRUE
                /\ Has(resp.input.category) => f.category = Val(resp.input.category)

\* a category search that returned a row while the store holds an inactive
\* FAQ and an FAQ of another category of the same school
C1_Witness ==
    /\ Searched
    /\ Len(resp.faqs) >= 1
    /\ Has(resp.input.category)
    /\ \E g \in SeenFaqs : ~g.is_active /\ g.school_id = resp.faqs[1].school_id
    /\ \E g \in SeenFaqs : g.category # Val(resp.input.category)
                       /\ g.school_id = resp.faqs[1].school_id

(***************************************************************************)
(* C2: searchFaqs never returns more than 20 FAQs.                         *)
(***************************************************************************)
C2_AtMostTwentyResults == Searched => Len(resp.faqs) <= LIMIT

\* more than 20 FAQs are eligible, the query has no usable term, 20 returned
C2_Witness ==
    /\ Searched
    /\ NoToken(resp.input.query)
    /\ Cardinality(Eligible(resp.input)) > LIMIT
    /\ Len(resp.faqs) = LIMIT

(***************************************************************************)
(* C3: total_results is the length of the returned (capped) sequence: 20   *)
(* when more than 20 rows match.                                           *)
(***************************************************************************)
C3_TotalIsCappedCount ==
    Searched =>
        /\ resp.total_results = Len(resp.faqs)
        /\ Cardinality(searchFaqsRows(SeenFaqs, SeenSchools, resp.input)) > LIMIT
            => resp.total_results = LIMIT

\* a search with a term that more than 20 rows match
C3_Witness ==
    /\ Searched
    /\ ~NoToken(resp.input.query)
    /\ Cardinality(searchFaqsRows(SeenFaqs, SeenSchools, resp.input)) > LIMIT
    /\ resp.total_results = LIMIT

(***************************************************************************)
(* C4: when the query has tokens, every returned FAQ contains one of them  *)
(* as a literal case-insensitive substring of its question, answer or      *)
(* keywords text, whatever characters the token is made of.                *)
(***************************************************************************)
C4_ResultsContainAToken ==
    (Searched /\ ~NoToken(resp.input.query)) =>
        \A i \in 1..Len(resp.faqs) :
            \E tok \in Tokens(resp.input.query) : InSomeField(resp.faqs[i], tok)

(***************************************************************************)
(* C5: when fewer than 20 rows match, every eligible FAQ that contains any *)
(* one token in any one of its three fields is returned.                   *)
(***************************************************************************)
C5_AnyTokenAnyFieldIsReturned ==
    Searched =>
        LET hits == {f \in Eligible(resp.input) :
                        \E tok \in Tokens(resp.input.query) : InSomeField(f, tok)}
        IN  Cardinality(hits) < LIMIT => hits \subseteq Range(resp.faqs)


(***************************************************************************)
(* C6: a query without tokens applies no text test: the response is the    *)
(* (up to 20) newest eligible FAQs, whatever their texts are.              *)
(***************************************************************************)
C6_NoTokenMeansFilterOnly ==
    (Searched /\ NoToken(resp.input.query)) =>
        LET E == Eligible(resp.input)
            R == Range(resp.faqs)
        IN  /\ R \subseteq E
            /\ Cardinality(R) = Len(resp.faqs)
            /\ Len(resp.faqs) = Min2(LIMIT, Cardinality(E))
            /\ \A f \in E \ R : \A g \in R : f.created_at <= g.created_at

\* the query " ab " returned an FAQ none of whose fields contains "ab"
C6_Witness ==
    /\ Searched
    /\ resp.input.query = T_blank_ab
    /\ \E i \in 1..Len(resp.faqs) : ~InSomeField(resp.faqs[i], T_ab)

(***************************************************************************)
(* C7: the suggested categories of a search are the categories that        *)
(* getAvailableCategories returns for the domain on the same store,        *)
(* whatever the query and the category filter are, also when no FAQ        *)
(* matched.                                                                *)
(***************************************************************************)
C7_SuggestionsAreAvailableCategories ==
    Searched =>
        \A cats \in getAvailableCategoriesQuery(faqs, schools, resp.input.school_domain) :
            Range(resp.suggested_categories) = Range(cats)

\* a search with a category filter matched nothing and still suggests a
\* category outside the filter
C7_Witness ==
    /\ Searched
    /\ resp.faqs = <<>>
    /\ Has(resp.input.category)
    /\ \E c \in Range(resp.suggested_categories) : c # Val(resp.input.category)

(***************************************************************************)
(* C8: getAvailableCategories returns, each exactly once, the categories   *)
(* of the active FAQs of the active school with the domain, and nothing    *)
(* when there is no such school or FAQ.                                    *)
(***************************************************************************)
C8_AvailableCategoriesExact ==
    resp.op = "getAvailableCategories" =>
        LET live == {c \in FaqCategory :
                        \E f \in faqs, s \in schools :
                            /\ f.school_id = s.id
                            /\ s.domain = resp.input
                            /\ s.is_active
                            /\ f.is_active
                            /\ f.category = c}
        IN  /\ Range(resp.categories) = live
            /\ Len(resp.categories) = Cardinality(live)

\* two categories are reported while one of them is held by several FAQs and
\* the school has an inactive FAQ as well
C8_Witness ==
    /\ resp.op = "getAvailableCategories"
    /\ Len(resp.categories) = 2
    /\ \E f \in faqs, g \in faqs : f # g /\ f.is_active /\ g.is_active
                                   /\ f.school_id = g.school_id /\ f.category = g.category
    /\ \E f \in faqs, s \in schools : f.school_id = s.id /\ s.domain = resp.input
                                      /\ ~f.is_active

(***************************************************************************)
(* C9: a read that finds FAQ f inactive (updateFaq has set is_active =     *)
(* false on it and nothing has reactivated it) excludes f from the FAQs it *)
(* returns, and reports f's category for f's tenant only if another active *)
(* FAQ of that tenant has it.  The FAQs of a response are read by the      *)
(* first store call of the read, its categories by the last.               *)
(***************************************************************************)
ReadOps == {"searchFaqs", "getFaqsByCategory", "getAvailableCategories"}

ReportedCategories(r) ==
    CASE r.op = "searchFaqs" -> Range(r.suggested_categories)
      [] r.op = "getAvailableCategories" -> Range(r.categories)
      [] OTHER -> {}

ReturnedIds(r) ==
    IF r.op \in {"searchFaqs", "getFaqsByCategory"} THEN {r.faqs[i].id : i \in DOMAIN r.faqs}
    ELSE {}

AskedDomain(r) ==
    IF r.op = "getAvailableCategories" THEN r.input ELSE r.input.school_domain

\* the FAQ table the returned FAQs of response r were read from, the step
\* that ends the read being taken from the current state
FaqsRead(r) == IF r.op = "searchFaqs" THEN r.seen.faqs ELSE faqs

C9_DeactivationIsImmediate ==
    [][(resp = Idle /\ resp'.op \in ReadOps) =>
        /\ \A f \in FaqsRead(resp') : f.is_active = FALSE => f.id \notin ReturnedIds(resp')
        /\ \A f \in faqs :
            (/\ f.is_active = FALSE
             /\ f.category \in ReportedCategories(resp')
             /\ \E s \in schools : s.id = f.school_id /\ s.domain = AskedDomain(resp'))
                    => \E g \in faqs : /\ g.id # f.id
                                       /\ g.is_active
                                       /\ g.school_id = f.school_id
                                       /\ g.category = f.category]_vars

\* a listing of the category of a deactivated FAQ for its tenant returned
\* the other, active FAQ of that category
C9_Witness ==
    /\ resp.op = "getFaqsByCategory"
    /\ Len(resp.faqs) >= 1
    /\ \E f \in faqs, s \in schools :
        /\ f.is_active = FALSE
        /\ f.category = resp.input.category
        /\ s.id = f.school_id
        /\ s.domain = resp.input.school_domain
        /\ s.is_active

(***************************************************************************)
(* C10: after a successful createFaq or updateFaq the stored keywords are  *)
(* non-empty unless the caller of updateFaq supplied an empty list.        *)
(***************************************************************************)
\* a successful call that returned the row it wrote
Written ==
    resp.op \in {"createFaq", "updateFaq"} /\ resp.error = "" /\ "row" \in DOMAIN resp

ExplicitEmpty ==
    resp.op = "updateFaq" /\ Has(resp.input.keywords) /\ Val(resp.input.keywords) = <<>>

C10_KeywordsNeverEmpty ==
    Written => (resp.row.keywords # <<>> \/ ExplicitEmpty)

\* the call derived the keywords from question and answer
Derived ==
    \/ resp.op = "createFaq" /\ ~(Has(resp.input.keywords) /\ Val(resp.input.keywords) # <<>>)
    \/ /\ resp.op = "updateFaq"
       /\ ~Has(resp.input.keywords)
       /\ Has(resp.input.question) \/ Has(resp.input.answer)

\* the text has a run of three word characters
HasWord(text) ==
    \E k \in 1..(Len(text) - 2) : \A j \in 0..2 : text[k + j] \in WordChars

\* the call left the keywords alone
KeywordsUntouched ==
    /\ resp.op = "updateFaq"
    /\ ~Has(resp.input.keywords) /\ ~Has(resp.input.question) /\ ~Has(resp.input.answer)

\* the text the call derived the keywords from: the texts of the input, a
\* text updateFaq was not given being the one its select read
DerivedFrom ==
    IF resp.op = "createFaq"
    THEN resp.input.question \o <<" ">> \o resp.input.answer
    ELSE (IF Has(resp.input.question) THEN Val(resp.input.question)
          ELSE resp.before.question)
         \o <<" ">> \o
         (IF Has(resp.input.answer) THEN Val(resp.input.answer) ELSE resp.before.answer)

\* C10 as amended: the stored keywords are non-empty unless updateFaq was
\* given an empty list, or the call derived them from a question and answer
\* without any word of three or more word characters, or updateFaq was given
\* neither keywords nor question nor answer and the list was empty before
C10_KeywordsEmptyOnlyWhen ==
    Written =>
        \/ resp.row.keywords # <<>>
        \/ ExplicitEmpty
        \/ Derived /\ ~HasWord(DerivedFrom)
        \/ KeywordsUntouched /\ resp.replaced.keywords = <<>>

\* updateFaq with only a question re-derived a non-empty list for an FAQ
\* whose keywords were empty
C10_Witness ==
    /\ Written
    /\ resp.op = "updateFaq"
    /\ Derived
    /\ resp.replaced.keywords = <<>>
    /\ resp.row.keywords # <<>>



(***************************************************************************)
(* C11: every keyword generateKeywords derives has at least three          *)
(* characters, has no upper-case letter and occurs as a substring of the   *)
(* lower-cased text question + " " + answer; for an empty question and an  *)
(* empty answer the result is the empty list.                              *)
(***************************************************************************)
UpperCase == DOMAIN LowerCaseOf

\* tok occurs in text as a literal substring, character for character
Contains(text, tok) ==
    \E k \in 0..(Len(text) - Len(tok)) :
        \A j \in 1..Len(tok) : text[k + j] = tok[j]

Extracted == resp.op = "generateKeywords"

C11_KeywordsAreLowerCaseWordsOfTheText ==
    Extracted =>
        /\ \A i \in DOMAIN resp.keywords :
              LET k == resp.keywords[i]
              IN  /\ Len(k) >= 3
                  /\ \A j \in DOMAIN k : k[j] \notin UpperCase
                  /\ Contains(LowerText(resp.question \o <<" ">> \o resp.answer), k)
        /\ (resp.question = <<>> /\ resp.answer = <<>>) => resp.keywords = <<>>

\* a keyword was derived from a question written with an upper-case letter
C11_Witness ==
    /\ Extracted
    /\ \E j \in DOMAIN resp.question : resp.question[j] \in UpperCase
    /\ \E i \in DOMAIN resp.keywords : Contains(LowerText(resp.question), resp.keywords[i])


(***************************************************************************)
(* C12: createFaq called without keywords, or with an empty list, stores   *)
(* generateKeywords(question, answer) of the submitted texts: every word   *)
(* of three or more characters of the question and the answer is a         *)
(* keyword, and no shorter word is.                                        *)
(***************************************************************************)
\* the words of a text: its maximal runs of word characters, lower-cased
Words(text) ==
    LET t == LowerText(text)
        run(a, b) == /\ \A k \in a..b : t[k] \in WordChars
                     /\ a = 1 \/ t[a - 1] \notin WordChars
                     /\ b = Len(t) \/ t[b + 1] \notin WordChars
    IN  {SubSeq(t, p[1], p[2]) :
            p \in {r \in (1..Len(t)) \X (1..Len(t)) : r[1] <= r[2] /\ run(r[1], r[2])}}

Created == resp.op = "createFaq" /\ resp.error = "" /\ "row" \in DOMAIN resp

NoKeywordsGiven(input) == ~Has(input.keywords) \/ Val(input.keywords) = <<>>

C12_CreateDerivesKeywords ==
    (Created /\ NoKeywordsGiven(resp.input)) =>
        /\ resp.row \in faqs
        /\ resp.row.keywords = generateKeywords(resp.input.question, resp.input.answer)
        /\ Range(resp.row.keywords) =
              {w \in Words(resp.input.question) \cup Words(resp.input.answer) : Len(w) >= 3}

\* an empty list was supplied; the stored keywords hold the long word of the
\* question and not the short word of the answer
C12_Witness ==
    /\ Created
    /\ Has(resp.input.keywords) /\ Val(resp.input.keywords) = <<>>
    /\ LowerText(resp.input.question) \in Range(resp.row.keywords)
    /\ \E w \in Words(resp.input.answer) : Len(w) < 3 /\ w \notin Range(resp.row.keywords)


(***************************************************************************)
(* C13: a non-empty keywords list supplied to createFaq or updateFaq is    *)
(* stored as it is: same elements, same order, nothing normalised, no      *)
(* keyword derived from the question or the answer, also when the same     *)
(* call changes the question or the answer.                                *)
(***************************************************************************)
KeywordsGiven(input) == Has(input.keywords) /\ Val(input.keywords) # <<>>

C13_SuppliedKeywordsStoredAsGiven ==
    (Written /\ KeywordsGiven(resp.input)) =>
        /\ resp.row \in faqs
        /\ resp.row.keywords = Val(resp.input.keywords)

\* an update that changes the question and supplies keywords: the word of the
\* new question is not among the stored keywords
C13_Witness ==
    /\ Written /\ resp.op = "updateFaq"
    /\ KeywordsGiven(resp.input)
    /\ Has(resp.input.question) /\ resp.row.question # resp.replaced.question
    /\ Words(resp.row.question) # {}
    /\ Words(resp.row.question) \cap Range(resp.row.keywords) = {}


(***************************************************************************)
(* C14: updateFaq without keywords re-derives the keywords exactly when    *)
(* the question or the answer is supplied: the stored keywords are then    *)
(* generateKeywords of the question and the answer the record holds after  *)
(* the update, a text not supplied keeping its stored value; with neither  *)
(* supplied the stored keywords stay as they were.                         *)
(***************************************************************************)
\* a successful updateFaq that returned the row it wrote
Updated == resp.op = "updateFaq" /\ resp.error = "" /\ "row" \in DOMAIN resp

C14_UpdateRederivesKeywords ==
    (Updated /\ ~Has(resp.input.keywords)) =>
        /\ resp.row \in faqs
        /\ resp.row.question =
              IF Has(resp.input.question) THEN Val(resp.input.question)
              ELSE resp.replaced.question
        /\ resp.row.answer =
              IF Has(resp.input.answer) THEN Val(resp.input.answer) ELSE resp.replaced.answer
        /\ IF Has(resp.input.question) \/ Has(resp.input.answer)
           THEN resp.row.keywords = generateKeywords(resp.row.question, resp.row.answer)
           ELSE resp.row.keywords = resp.replaced.keywords

(***************************************************************************)
(* C15: updateFaq changes only what its input supplies, and the keywords   *)
(* when they are re-derived: each of category, question, answer, keywords, *)
(* is_active that is not supplied keeps its stored value; id, school_id,   *)
(* created_by and created_at never change; every other FAQ row and every   *)
(* school stay as they were.                                               *)
(***************************************************************************)
UpdateFrame(input, f, g) ==
    /\ g.id = f.id
    /\ g.school_id = f.school_id
    /\ g.created_by = f.created_by
    /\ g.created_at = f.created_at
    /\ ~Has(input.category) => g.category = f.category
    /\ ~Has(input.question) => g.question = f.question
    /\ ~Has(input.answer) => g.answer = f.answer
    /\ ~Has(input.is_active) => g.is_active = f.is_active
    /\ (~Has(input.keywords) /\ ~Has(input.question) /\ ~Has(input.answer))
          => g.keywords = f.keywords

C15_UpdateChangesOnlySuppliedFields ==
    [][(resp = Idle /\ resp'.op = "updateFaq") =>
          /\ schools' = schools
          /\ {f \in faqs' : f.id # resp'.input.id} = {f \in faqs : f.id # resp'.input.id}
          /\ \A f \in faqs : f.id = resp'.input.id =>
                \E g \in faqs' : UpdateFrame(resp'.input, f, g)
          /\ \A g \in faqs' : g.id = resp'.input.id =>
                \E f \in faqs : UpdateFrame(resp'.input, f, g)]_vars

\* the question of an inactive FAQ was replaced in a store of several rows:
\* the row is still inactive and in its category
C15_Witness ==
    /\ Updated
    /\ Has(resp.input.question) /\ ~Has(resp.input.is_active) /\ ~Has(resp.input.category)
    /\ resp.row.question # resp.replaced.question
    /\ ~resp.replaced.is_active /\ ~resp.row.is_active
    /\ resp.row.category = resp.replaced.category
    /\ Cardinality(faqs) > 1


(***************************************************************************)
(* C16: createFaq for a school_id that no school has when the call looks   *)
(* the school up fails with 'School not found' and inserts nothing: the    *)
(* store after the call is the store before it.                            *)
(***************************************************************************)
\* the ids of the schools in the store when the call of response r looked
\* its school up, the step that ends the call being taken from the current
\* state
SchoolsLookedUp(r) ==
    IF "schoolsAtCheck" \in DOMAIN r THEN r.schoolsAtCheck ELSE {s.id : s \in schools}

C16_CreateForUnknownSchoolFails ==
    [][(/\ resp = Idle
        /\ resp'.op = "createFaq"
        /\ resp'.error # "BAD_REQUEST"
        /\ resp'.input.school_id \notin SchoolsLookedUp(resp')) =>
          /\ resp'.error = "School not found"
          /\ faqs' = faqs
          /\ schools' = schools
          /\ nextId' = nextId]_vars

\* the call named a school that is not in a store holding FAQs
C16_Witness ==
    /\ resp.op = "createFaq"
    /\ resp.error = "School not found"
    /\ ~\E s \in schools : s.id = resp.input.school_id
    /\ faqs # {}


(***************************************************************************)
(* C17: deleteFaq(id) answers success = true exactly when an FAQ with the  *)
(* id is in the store at the time of the delete; it removes that row and   *)
(* no other, and getFaqById(id) finds nothing afterwards.  With no such    *)
(* FAQ it answers success = false and leaves the store as it was, so a     *)
(* second deleteFaq of the same id answers false.                          *)
(***************************************************************************)
C17_DeleteReportsWhatItRemoved ==
    [][(resp = Idle /\ resp'.op = "deleteFaq") =>
          /\ resp'.success = (\E f \in faqs : f.id = resp'.input.id)
          /\ faqs' = {f \in faqs : f.id # resp'.input.id}
          /\ getFaqById(faqs', resp'.input.id) = Absent
          /\ schools' = schools]_vars

\* a delete of an id that was given out before and is no longer in the store
\* answered false, other rows being there
C17_Witness ==
    /\ resp.op = "deleteFaq"
    /\ ~resp.success
    /\ resp.input.id < nextId
    /\ faqs # {}


(***************************************************************************)
(* C18: a create or an update of an FAQ with an empty question, an empty   *)
(* answer or a category that is none of admissions, academic_programs,     *)
(* campus_life, contact_support, general_info is rejected before the store *)
(* is touched: no FAQ row is inserted or modified.                         *)
(***************************************************************************)
KnownCategories ==
    {"admissions", "academic_programs", "campus_life", "contact_support", "general_info"}

BadCreate(input) ==
    \/ input.question = <<>>
    \/ input.answer = <<>>
    \/ input.category \notin KnownCategories

BadUpdate(input) ==
    \/ Has(input.question) /\ Val(input.question) = <<>>
    \/ Has(input.answer) /\ Val(input.answer) = <<>>
    \/ Has(input.category) /\ Val(input.category) \notin KnownCategories

C18_InvalidFaqInputIsRejected ==
    [][(/\ resp = Idle
        /\ \/ resp'.op = "createFaq" /\ BadCreate(resp'.input)
           \/ resp'.op = "updateFaq" /\ BadUpdate(resp'.input)) =>
          /\ resp'.error # ""
          /\ faqs' = faqs
          /\ nextId' = nextId
          /\ schools' = schools]_vars

\* an update of a stored FAQ with an empty answer was rejected
C18_Witness ==
    /\ resp.op = "updateFaq"
    /\ Has(resp.input.answer) /\ Val(resp.input.answer) = <<>>
    /\ \E f \in faqs : f.id = resp.input.id /\ f.answer # <<>>
    /\ resp.error = "BAD_REQUEST"


(***************************************************************************)
(* C19: operations on the FAQs of one tenant have no effect on another     *)
(* tenant: a createFaq, updateFaq or deleteFaq on an FAQ of school A       *)
(* leaves what searchFaqs, getFaqsByCategory and getAvailableCategories    *)
(* can answer for the domain of a school B with another domain as it was.  *)
(* Stated for every single step, it holds for every sequence of them.      *)
(***************************************************************************)
ViewQueries == {<<>>, T_ABC, T_a_c}

ViewCategories == {Absent, Some("admissions"), Some("campus_life")}

\* everything the three read operations can answer for a domain
TenantView(fs, ss, domain) ==
    [search |->
        [q \in ViewQueries, c \in ViewCategories |->
            LET input == [school_domain |-> domain, query |-> q, category |-> c]
            IN  <<searchFaqsQuery(fs, ss, input), suggestedCategories(fs, ss, input)>>],
     byCategory |->
        [c \in FaqCategory |->
            getFaqsByCategoryQuery(fs, ss, [school_domain |-> domain, category |-> c])],
     categories |-> getAvailableCategoriesQuery(fs, ss, domain)]

\* the step is a write call on an FAQ of the school
WritesFaqOf(schoolId) ==
    /\ resp = Idle
    /\ \/ resp'.op = "createFaq" /\ resp'.input.school_id = schoolId
       \/ /\ resp'.op \in {"updateFaq", "deleteFaq"}
          /\ \E f \in faqs : f.id = resp'.input.id /\ f.school_id = schoolId

C19_TenantsAreIsolated ==
    [][\A a \in schools, b \in schools :
          (a.domain # b.domain /\ WritesFaqOf(a.id)) =>
              TenantView(faqs', schools', b.domain) = TenantView(faqs, schools, b.domain)]_vars

\* an FAQ of one school was updated while another school has an FAQ that its
\* own search returns
C19_Witness ==
    /\ Updated
    /\ resp.row # resp.replaced
    /\ \E b \in schools :
          /\ b.id # resp.row.school_id
          /\ \E r \in searchFaqsQuery(faqs, schools,
                    [school_domain |-> b.domain, query |-> <<>>, category |-> Absent]) :
                r # <<>>


(***************************************************************************)
(* C20: when a store call of searchFaqs fails, the main FAQ query or the   *)
(* suggested-categories query after it, the search fails with that error:  *)
(* no response with empty or partial faqs or suggested_categories is       *)
(* returned.                                                               *)
(***************************************************************************)
StoreFailed == resp.op = "searchFaqs" /\ "failure" \in DOMAIN resp

ResponseFields == {"faqs", "suggested_categories", "total_results"}

C20_StoreFailureFailsTheSearch ==
    StoreFailed =>
        /\ "error" \in DOMAIN resp
        /\ resp.error = resp.failure.error
        /\ DOMAIN resp \cap ResponseFields = {}

\* the categories query failed after the main query had found FAQs
C20_Witness ==
    /\ StoreFailed
    /\ resp.failure.call = "categories"
    /\ "error" \in DOMAIN resp
    /\ \E r \in searchFaqsQuery(faqs, schools, resp.input) : r # <<>>


(***************************************************************************)
(* C21: the tokenizer of searchFaqs returns, in their order in the query,  *)
(* exactly the lower-cased whitespace-separated pieces of three or more    *)
(* characters; shorter pieces and the empty pieces before leading and      *)
(* after trailing whitespace are dropped, so the empty query and a query   *)
(* of short words give the empty sequence.                                 *)
(***************************************************************************)
\* the pieces of three or more characters of a text, as pairs <<first, last>>
\* of positions: maximal runs without whitespace
LongPieces(t) ==
    {p \in (1..Len(t)) \X (1..Len(t)) :
        /\ p[2] - p[1] >= 2
        /\ \A k \in p[1]..p[2] : t[k] \notin Whitespace
        /\ p[1] = 1 \/ t[p[1] - 1] \in Whitespace
        /\ p[2] = Len(t) \/ t[p[2] + 1] \in Whitespace}

Tokenized == resp.op = "searchTerms"

C21_TokenizerKeepsLongPiecesInOrder ==
    Tokenized =>
        LET q == LowerText(resp.query)
            P == LongPieces(q)
        IN  /\ Len(resp.terms) = Cardinality(P)
            /\ \A p \in P :
                  resp.terms[1 + Cardinality({r \in P : r[1] < p[1]})] = SubSeq(q, p[1], p[2])

\* a query with leading whitespace, an upper-case letter and two long pieces
C21_Witness ==
    /\ Tokenized
    /\ resp.query # <<>> /\ resp.query[1] \in Whitespace
    /\ \E j \in DOMAIN resp.query : resp.query[j] \in UpperCase
    /\ Len(resp.terms) = 2
    /\ resp.terms[1] # resp.terms[2]


(***************************************************************************)
(* C22: searchFaqs returns its FAQs in non-increasing created_at order,    *)
(* and the cap keeps the newest: no matching record that was left out has  *)
(* a created_at strictly later than a returned one.                        *)
(***************************************************************************)
C22_NewestFirstAndNewestKept ==
    Searched =>
        /\ \A i \in 1..(Len(resp.faqs) - 1) :
              resp.faqs[i].created_at >= resp.faqs[i + 1].created_at
        /\ \A m \in searchFaqsRows(SeenFaqs, SeenSchools, resp.input) \ Range(resp.faqs) :
              \A r \in Range(resp.faqs) : m.created_at <= r.created_at

\* more than LIMIT records match: LIMIT are returned, the first newer than
\* the last, and a record is left out
C22_Witness ==
    /\ Searched
    /\ Len(resp.faqs) = LIMIT
    /\ resp.faqs[1].created_at > resp.faqs[LIMIT].created_at
    /\ \E m \in Eligible(resp.input) : m \notin Range(resp.faqs)
    /\ NoToken(resp.input.query)


(***************************************************************************)
(* C23: generateKeywords(question, answer) is exactly the sequence of the  *)
(* maximal runs of word characters of length >= 3 in the lower-cased text  *)
(* question + " " + answer, duplicates removed, each keyword at the place  *)
(* of its first occurrence: no duplicate, no such run omitted.  The result *)
(* is determined by the input alone, so two calls on the same input agree. *)
(***************************************************************************)
\* the maximal runs of word characters of length >= 3, as pairs of positions
LongRuns(t) ==
    {p \in (1..Len(t)) \X (1..Len(t)) :
        /\ p[2] - p[1] >= 2
        /\ \A k \in p[1]..p[2] : t[k] \in WordChars
        /\ p[1] = 1 \/ t[p[1] - 1] \notin WordChars
        /\ p[2] = Len(t) \/ t[p[2] + 1] \notin WordChars}

\* the runs that no earlier run spells
FirstRuns(t) ==
    {p \in LongRuns(t) :
        \A r \in LongRuns(t) : r[1] < p[1] => SubSeq(t, r[1], r[2]) # SubSeq(t, p[1], p[2])}

C23_KeywordsAreFirstOccurrencesOfLongRuns ==
    Extracted =>
        LET t == LowerText(resp.question \o <<" ">> \o resp.answer)
            F == FirstRuns(t)
        IN  /\ Len(resp.keywords) = Cardinality(F)
            /\ \A p \in F :
                  resp.keywords[1 + Cardinality({r \in F : r[1] < p[1]})] = SubSeq(t, p[1], p[2])
            /\ \A i \in DOMAIN resp.keywords, j \in DOMAIN resp.keywords :
                  i # j => resp.keywords[i] # resp.keywords[j]

\* a word occurs twice in the text and two different keywords were derived
C23_Witness ==
    /\ Extracted
    /\ LET t == LowerText(resp.question \o <<" ">> \o resp.answer)
       IN  Cardinality(FirstRuns(t)) < Cardinality(LongRuns(t))
    /\ Len(resp.keywords) >= 2


(***************************************************************************)
(* C24: keyword derivation is idempotent on its own output: deriving again *)
(* from a text made of the keywords of a derivation, separated by spaces,  *)
(* yields the same list, with no new keyword.                              *)
(***************************************************************************)
DerivedAgain == resp.op = "generateKeywordsAgain"

C24_DerivationIsIdempotent ==
    DerivedAgain => resp.again = resp.keywords

\* a list of two or more keywords was derived again
C24_Witness ==
    /\ DerivedAgain
    /\ Len(resp.keywords) >= 2
    /\ Len(resp.again) >= 2


(***************************************************************************)
(* C25: every keyword of every stored FAQ, derived or assigned explicitly  *)
(* through createFaq or updateFaq, is normalised: lower-case and of three  *)
(* or more characters.                                                     *)
(***************************************************************************)
Normalised(k) == Len(k) >= 3 /\ \A j \in DOMAIN k : k[j] \notin UpperCase

C25_StoredKeywordsAreNormalised ==
    \A f \in faqs : \A i \in DOMAIN f.keywords : Normalised(f.keywords[i])

\* C25 as amended: the keywords a call derives from question and answer are
\* normalised; a non-empty list supplied by the caller is stored as given,
\* normalised or not
C25_DerivedKeywordsAreNormalised ==
    Written =>
        /\ resp.row \in faqs
        /\ Derived => \A i \in DOMAIN resp.row.keywords : Normalised(resp.row.keywords[i])
        /\ KeywordsGiven(resp.input) => resp.row.keywords = Val(resp.input.keywords)

\* keywords were derived from a question written with an upper-case letter
C25_Witness ==
    /\ Written /\ Derived
    /\ \E j \in DOMAIN resp.row.question : resp.row.question[j] \in UpperCase
    /\ resp.row.keywords # <<>>


(***************************************************************************)
(* C26: createFaq checks the school and inserts in two store calls.  When  *)
(* a deleteSchool of the school runs between the two, createFaq still      *)
(* succeeds and leaves an FAQ row whose school_id no school has; without   *)
(* a deleteSchool in between, the row createFaq inserts references a       *)
(* school of the store.                                                    *)
(***************************************************************************)
\* the step ends a createFaq that inserted its row
Inserts == resp = Idle /\ resp'.op = "createFaq" /\ "row" \in DOMAIN resp'

\* the step ends a deleteSchool of the id that deleted the school row
DeletesSchool(id) ==
    resp = Idle /\ resp'.op = "deleteSchool" /\ resp'.input.id = id /\ resp'.success

\* the row an insert stores is of a school that was in the store at the
\* check of the call, and a school leaves the store only by the last
\* statement of a deleteSchool of it: a row is inserted for a school that no
\* longer exists only when a deleteSchool removed it after the check
C26_InsertOrphansOnlyAfterDeleteSchool ==
    [][/\ Inserts =>
            /\ resp'.error = ""
            /\ resp'.row \in faqs'
            /\ resp'.row.school_id \in resp'.schoolsAtCheck
            /\ resp'.schoolsAtInsert = {s.id : s \in schools}
       /\ \A s \in schools :
            (~\E t \in schools' : t.id = s.id) => DeletesSchool(s.id)]_vars

\* createFaq succeeded for a school that was there at its check and gone at
\* its insert: the row is stored and no school has its school_id
C26_Witness ==
    /\ Created
    /\ resp.row.school_id \in resp.schoolsAtCheck \ resp.schoolsAtInsert
    /\ resp.row \in faqs
    /\ ~\E s \in schools : s.id = resp.row.school_id


(***************************************************************************)
(* C27: in every response of searchFaqs the category of each returned FAQ  *)
(* is one of suggested_categories, also when updateFaq, deleteFaq or       *)
(* createFaq calls of other requests run between the FAQ query and the     *)
(* categories query of the search.                                         *)
(***************************************************************************)
C27_ReturnedCategoriesAreSuggested ==
    Searched =>
        \A i \in DOMAIN resp.faqs :
            resp.faqs[i].category \in Range(resp.suggested_categories)


(***************************************************************************)
(* C28: whenever no updateFaq call is in progress on an FAQ whose last     *)
(* keyword-changing write was a derivation, its stored keywords equal      *)
(* generateKeywords(stored question, stored answer), also after two        *)
(* concurrent updateFaq calls on the FAQ, one supplying only the question  *)
(* and the other only the answer.  In SpecConc no call supplies keywords,  *)
(* so every keywords write is a derivation.                                *)
(***************************************************************************)
UpdateInProgress(id) ==
    \E r \in Requests : calls[r].op = "updateFaq" /\ calls[r].input.id = id

C28_DerivedKeywordsMatchStoredTexts ==
    \A f \in faqs :
        ~UpdateInProgress(f.id) => f.keywords = generateKeywords(f.question, f.answer)


(***************************************************************************)
(* C29: every updateFaq call ends in one of two ways: it fails with 'FAQ   *)
(* not found', or it returns the updated FAQ record; it never completes    *)
(* successfully without a record, also when a deleteFaq of the id by       *)
(* another request runs between its existence check and its update.        *)
(***************************************************************************)
C29_UpdateEndsNotFoundOrWithRecord ==
    (resp.op = "updateFaq" /\ resp.error # "BAD_REQUEST") =>
        \/ resp.error = "FAQ not found"
        \/ resp.error = "" /\ "row" \in DOMAIN resp


(***************************************************************************)
(* C30: account round trip.  After createUser(username u, password p) has  *)
(* succeeded, and while the user is active, login(u, p) succeeds and       *)
(* returns the id, role and school_id of that user without the password    *)
(* hash: the hash that createUser and updateUser store is one that the     *)
(* verification of login accepts for the same password.                    *)
(***************************************************************************)
\* the user is active and its stored hash was made from the password
HoldsPassword(u, password) == u.is_active /\ u.password_hash.password = password

C30_StoredHashIsAcceptedByLogin ==
    resp.op = "login" =>
        \A u \in users :
            (u.username = resp.input.username /\ HoldsPassword(u, resp.input.password)) =>
                /\ resp.error = ""
                /\ resp.user = [id |-> u.id, username |-> u.username, role |-> u.role,
                                school_id |-> u.school_id, full_name |-> u.full_name,
                                email |-> u.email]

====
